---- MODULE Spec2Model ----
(***************************************************************************)
(* Model of midgard-lib: the LDAP authentication (claims.LDAPClaims,       *)
(* specification Spec; AloneSpec for one call per object followed by       *)
(* ToMidgardClaims), the LDAP connection info (ldaputils.LDAPInfo,         *)
(* InfoSpec) and the client's claim normalization, token verification,     *)
(* unverified token parsing and credential parsing (midgardclient:         *)
(* NormSpec, TokenSpec, UnsecureSpec and CredsSpec).                       *)
(*                                                                         *)
(* Strings that the code transforms (distinguished names, attribute        *)
(* values) are sequences of one-character strings, so that parsing and     *)
(* space replacement are computed, not assumed.  Strings that the code     *)
(* only compares or passes on (metadata keys, attribute names, passwords,  *)
(* error messages) are TLA+ strings.                                       *)
(***************************************************************************)
EXTENDS Integers, Sequences, FiniteSets, TLC

\* Total number of FromMetadata calls started in one behaviour.
MaxStarts == 2

\* Two goroutines that may each run FromMetadata, two LDAPClaims objects.
Calls == {"g1", "g2"}
Objs  == {"o1", "o2"}

Nil == "nil"

-----------------------------------------------------------------------------
(* Go maps with string keys: functions over a finite set of keys. *)

EmptyMap == [k \in {} |-> <<>>]

Put(m, k, v) == [x \in (DOMAIN m) \cup {k} |-> IF x = k THEN v ELSE m[x]]

-----------------------------------------------------------------------------
(* strings.Replace(s, " ", "_", -1) *)

ReplaceSpaces(s) == [i \in 1..Len(s) |-> IF s[i] = " " THEN "_" ELSE s[i]]

-----------------------------------------------------------------------------
(* ldap.ParseDN, for distinguished names without escapes or BER values:    *)
(* '=' ends the type, ',' and '+' end a value, ',' also ends the relative  *)
(* name; unescaped leading and trailing spaces of a token are dropped.     *)

RECURSIVE TrimRight(_)
TrimRight(s) ==
    IF s = <<>> \/ s[Len(s)] # " " THEN s
    ELSE TrimRight(SubSeq(s, 1, Len(s) - 1))

(* The parser's state: the relative names completed so far, the attributes *)
(* of the one being read, the pending type and the character buffer.       *)
DNAttribute == [Type : Seq(STRING), Value : Seq(STRING)]

ParseStates == [err : STRING, RDNs : Seq(Seq(DNAttribute)), cur : Seq(DNAttribute),
                type : Seq(STRING), buf : Seq(STRING)]

ParseStart == [err |-> Nil, RDNs |-> <<>>, cur |-> <<>>, type |-> <<>>, buf |-> <<>>]

ParseDN(str) ==
    LET scan[i \in Nat, st \in ParseStates] ==
            IF st.err # Nil THEN st
            ELSE IF i > Len(str) THEN
                IF st.buf = <<>> THEN st
                ELSE IF st.type = <<>>
                     THEN [st EXCEPT !.err = "DN ended with incomplete type, value pair"]
                     ELSE [st EXCEPT !.RDNs = Append(st.RDNs,
                                         Append(st.cur, [Type |-> st.type,
                                                         Value |-> TrimRight(st.buf)])),
                                     !.cur = <<>>, !.type = <<>>, !.buf = <<>>]
            ELSE IF str[i] = "=" THEN
                scan[i + 1, [st EXCEPT !.type = TrimRight(st.buf), !.buf = <<>>]]
            ELSE IF str[i] = "," \/ str[i] = "+" THEN
                IF st.type = <<>>
                THEN [st EXCEPT !.err = "incomplete type, value pair"]
                ELSE scan[i + 1,
                          IF str[i] = ","
                          THEN [st EXCEPT !.RDNs = Append(st.RDNs,
                                              Append(st.cur, [Type |-> st.type,
                                                              Value |-> TrimRight(st.buf)])),
                                          !.cur = <<>>, !.type = <<>>, !.buf = <<>>]
                          ELSE [st EXCEPT !.cur = Append(st.cur, [Type |-> st.type,
                                                                  Value |-> TrimRight(st.buf)]),
                                          !.type = <<>>, !.buf = <<>>]]
            ELSE IF str[i] = " " /\ st.buf = <<>> THEN
                scan[i + 1, st]
            ELSE
                scan[i + 1, [st EXCEPT !.buf = Append(st.buf, str[i])]]
        end == scan[1, ParseStart]
    IN  [err |-> end.err, RDNs |-> IF end.err = Nil THEN end.RDNs ELSE <<>>]

-----------------------------------------------------------------------------
(* FromMetadata, lines 129-144: the loop over the relative names of the    *)
(* parsed DN.  Only the first attribute of each relative name is read;     *)
(* reading it panics when there is none.                                   *)

OU == <<"o", "u">>
DC == <<"d", "c">>

DecomposeStates == [panic : BOOLEAN, subOrgs : Seq(Seq(STRING)), organization : Seq(STRING)]

DecomposeStart == [panic |-> FALSE, subOrgs |-> <<>>, organization |-> <<>>]

Decompose(rdns) ==
    LET loop[i \in Nat, acc \in DecomposeStates] ==
            IF acc.panic \/ i > Len(rdns) THEN acc
            ELSE IF Len(rdns[i]) = 0 THEN [acc EXCEPT !.panic = TRUE]
            ELSE loop[i + 1,
                      [acc EXCEPT
                          !.subOrgs = IF rdns[i][1].Type = OU
                                      THEN Append(acc.subOrgs, rdns[i][1].Value)
                                      ELSE acc.subOrgs,
                          !.organization =
                              IF rdns[i][1].Type = DC
                              THEN IF Len(acc.organization) = 0 THEN rdns[i][1].Value
                                   ELSE acc.organization \o <<".">> \o rdns[i][1].Value
                              ELSE acc.organization]]
    IN  loop[1, DecomposeStart]

(* FromMetadata, lines 146-154: the three entries derived from the DN. *)
StoreDN(a, dn, d) ==
    LET a1 == IF Len(d.subOrgs) > 0 THEN Put(a, "organizationalUnit", d.subOrgs[1]) ELSE a
        a2 == IF d.organization # <<>> THEN Put(a1, "organization", d.organization) ELSE a1
    IN  Put(a2, "dn", ReplaceSpaces(dn))

(* FromMetadata, lines 157-165: one iteration of the loop over the entry's *)
(* attributes.  attr.Values[0] panics when the attribute has no value.     *)
(* Variant: only the password is passed over. *)
OnlyPasswordSkipped(name) == name = "userPassword"

SkippedName(name) == name = "userPassword" \/ name = "objectClass"

AttrPanics(attr) == ~SkippedName(attr.Name) /\ Len(attr.Values) = 0

StoreAttr(a, attr) ==
    IF SkippedName(attr.Name) THEN a
    ELSE IF attr.Values[1] = <<>> THEN a
    ELSE Put(a, attr.Name, ReplaceSpaces(attr.Values[1]))

-----------------------------------------------------------------------------
(* The directory entries a search may return.  Each is a DN and the list   *)
(* of its attributes (name, values).                                       *)

Directory == <<
    \* uid=a,ou=x y,ou=z,dc=c,dc=d
    [DN |-> <<"u","i","d","=","a",",","o","u","=","x"," ","y",",","o","u","=","z",",",
              "d","c","=","c",",","d","c","=","d">>,
     Attributes |-> << [Name |-> "mail", Values |-> << <<"a","@","c">> >>],
                       [Name |-> "userPassword", Values |-> << <<"p","w">> >>],
                       [Name |-> "cn", Values |-> << <<"A"," ","B">>, <<"a","l","t">> >>],
                       [Name |-> "sn", Values |-> << <<>> >>] >>],
    \* cn=b,dc=e, with an attribute named like a DN-derived entry
    [DN |-> <<"c","n","=","b",",","d","c","=","e">>,
     Attributes |-> << [Name |-> "objectClass", Values |-> << <<"t","o","p">> >>],
                       [Name |-> "organization", Values |-> << <<"e","v","i","l">> >>] >>],
    \* cn=b, with an attribute that has no value
    [DN |-> <<"c","n","=","b">>,
     Attributes |-> << [Name |-> "memberOf", Values |-> <<>>] >>],
    \* =x,dc=c, which ParseDN rejects
    [DN |-> <<"=","x",",","d","c","=","c">>,
     Attributes |-> << [Name |-> "mail", Values |-> << <<"x">> >>] >>],
    \* uid=e+ou=m, dc=d: a multi-valued relative name, a space after the comma
    [DN |-> <<"u","i","d","=","e","+","o","u","=","m",","," ","d","c","=","d">>,
     Attributes |-> <<>>] >>

Entries == 1..Len(Directory)

(* ldap.ParseDN(entry.DN), line 124, for each entry of the directory. *)
ParsedDN == [e \in Entries |-> ParseDN(Directory[e].DN)]

(* The loop of lines 129-144 over the parsed DN of each entry. *)
Decomposed == [e \in Entries |-> Decompose(ParsedDN[e].RDNs)]

SearchResults == {<<>>} \cup {<<e>> : e \in Entries} \cup {<<1, 2>>}

(* Errors of the ldap library, returned unchanged by FromMetadata.  Bind   *)
(* is one library function: its errors do not depend on the call site.     *)
DialErrors   == {"LDAP Result Code 200 Network Error: dial tcp: connection refused"}
BindErrors   == {"LDAP Result Code 49 Invalid Credentials"}
SearchErrors == {"LDAP Result Code 32 No Such Object"}

ErrTooMany == "User does not exist or too many entries returned"

-----------------------------------------------------------------------------
(* Metadata: a map from keys to values of any type. *)

Str(v)    == [kind |-> "string", val |-> v]
NonStr(t) == [kind |-> t]

(* The value of ignoredKeys: a list of attribute names. *)
StrList(l) == [kind |-> "list", elems |-> l]

Without(m, k) == [x \in (DOMAIN m) \ {k} |-> m[x]]

AdminDN == <<"c","n","=","a","d","m","i","n",",","d","c","=","c">>

ValidMetadata(pw) ==
    [LDAPAddress |-> Str("ldap:389"), bindDN |-> Str(AdminDN),
     bindPassword |-> Str("bindpw"), bindSearchFilter |-> Str("uid={USERNAME}"),
     subjectKey |-> Str("uid"), ignoredKeys |-> StrList(<<"mail">>),
     connSecurityProtocol |-> Str("TLS"), username |-> Str("lskywalker"),
     password |-> Str(pw), baseDN |-> Str("dc=c")]

Metadatas ==
    { ValidMetadata("secret"),
      Without(ValidMetadata("secret"), "username"),
      Without(Without(ValidMetadata("secret"), "bindPassword"), "baseDN"),
      [ValidMetadata("secret") EXCEPT !.bindDN = NonStr("int")],
      [k \in {} |-> Str("")] }

(* FromMetadata, lines 57-85: the keys are read in this order; an absent   *)
(* key returns an error, a value that is not a string panics in the type   *)
(* assertion that follows the presence check.                              *)
RequiredKeys == <<"LDAPAddress", "bindDN", "bindPassword", "username", "password", "baseDN">>

MissingKeyError ==
    [LDAPAddress  |-> "Metadata must contain the key 'LDAPAddress'",
     bindDN       |-> "Metadata must contain the key 'bindDN'",
     bindPassword |-> "Metadata must contain the key 'bindPassword'",
     username     |-> "Metadata must contain the key 'username'",
     password     |-> "Metadata must contain the key 'password'",
     baseDN       |-> "Metadata must contain the key 'baseDN'"]

RECURSIVE CheckKeys(_, _)
CheckKeys(m, i) ==
    IF i > Len(RequiredKeys) THEN [outcome |-> "ok", err |-> Nil]
    ELSE LET k == RequiredKeys[i] IN
         IF k \notin DOMAIN m THEN [outcome |-> "error", err |-> MissingKeyError[k]]
         ELSE IF m[k].kind # "string" THEN [outcome |-> "panic", err |-> Nil]
         ELSE CheckKeys(m, i + 1)

-----------------------------------------------------------------------------
(* State.  Per goroutine: the position in FromMetadata (pc), its arguments *)
(* (md, recv), its locals (conn: the connection l, 0 before the dial;      *)
(* entry: the index of sr.Entries[0] in Directory, 0 before the search;    *)
(* idx: the position of the attribute loop) and the error it returned.     *)
(* Per LDAPClaims object: its Attributes map.  connState is the state of   *)
(* every connection dialed so far.  fatal: the Go runtime has ended the    *)
(* process after detecting concurrent writes to one map.                   *)
(*                                                                         *)
(* History kept for the properties: ops (the directory operations of the   *)
(* current call, in order), failedAt (the step whose error was returned),  *)
(* pre (the receiver's Attributes when the call started), result (the      *)
(* receiver's Attributes when the call returned), shared (another call     *)
(* ran on the same receiver during this call), starts (calls so far).      *)

VARIABLES pc, md, recv, conn, entry, idx, err, attrs, connState, fatal,
          ops, failedAt, pre, result, shared, starts

ldapVars == <<pc, md, recv, conn, entry, idx, err, attrs, connState, fatal,
              ops, failedAt, pre, result, shared, starts>>

(* Package ldaputils: the metadata given to NewLDAPInfo, the info and the  *)
(* error it returned, the map ToMap returned and the string                *)
(* GetUserQueryString returned (each the empty sequence until it exists).  *)
VARIABLES metadata, info, infoErr, infoMap, query

infoVars == <<metadata, info, infoErr, infoMap, query>>

(* Package midgardclient.  NormalizeAuth: the attribute map given to it,   *)
(* the order in which ranging over the map visits its keys, the list       *)
(* returned and whether the call has been made.  VerifyToken and           *)
(* VerifyTokenSignature: the token, the time of the verification and what  *)
(* each returned (the empty sequence until it has).                        *)
VARIABLES data, order, normalized, called

normVars == <<data, order, normalized, called>>

VARIABLES token, now, verified, verifiedSig

tokenVars == <<token, now, verified, verifiedSig>>

(* UnsecureClaimsFromToken: the two token strings given to it and what it  *)
(* returned for each.  ParseCredentials: the credential bundle given to it *)
(* and what it returned.  Each result is the empty sequence until it       *)
(* exists.                                                                 *)
VARIABLES raw, unsafe, bundle, parsed

utilVars == <<raw, unsafe, bundle, parsed>>

(* Per LDAPClaims object: the Subject of its embedded standard claims and  *)
(* what ToMidgardClaims last returned for it (the empty sequence until it  *)
(* has been called).                                                       *)
VARIABLES subject, midgard

midgardVars == <<subject, midgard>>

vars == <<ldapVars, infoVars, normVars, tokenVars, utilVars, midgardVars>>

(* Variant: every call writes one map shared by the package. *)
PackageLevelMap(c) == "o1"

(* c.Attributes: the map a call writes is the one of its receiver. *)
Receiver(c) == recv[c]

Active(c) == pc[c] \in {"dial", "bind", "search", "userbind", "parsedn", "attrs"}

(* One directory operation as the library sees it: the connection it is   *)
(* issued on, whether it succeeded, and its arguments (dial: network and   *)
(* addr; bind: dn and pw; search: base and filter, n entries returned).    *)
Op(name, k, ok) ==
    [op |-> name, conn |-> k, ok |-> ok, network |-> "", addr |-> "",
     dn |-> <<>>, pw |-> "", base |-> "", filter |-> <<>>, n |-> 0]

(* Variant: the constructor leaves an entry in the map. *)
PrefilledAttributes == Put(EmptyMap, "uid", <<"z">>)

(* NewLDAPClaims, lines 39-45: every object starts with an empty map. *)
NewAttributes == EmptyMap

(* No call has started, every object is as NewLDAPClaims made it. *)
ClaimsInit ==
    /\ pc = [c \in Calls |-> "idle"]
    /\ md = [c \in Calls |-> EmptyMap]
    /\ recv = [c \in Calls |-> "o1"]
    /\ conn = [c \in Calls |-> 0]
    /\ entry = [c \in Calls |-> 0]
    /\ idx = [c \in Calls |-> 0]
    /\ err = [c \in Calls |-> Nil]
    /\ attrs = [o \in Objs |-> NewAttributes]
    /\ connState = <<>>
    /\ fatal = FALSE
    /\ ops = [c \in Calls |-> <<>>]
    /\ failedAt = [c \in Calls |-> "none"]
    /\ pre = [c \in Calls |-> EmptyMap]
    /\ result = [c \in Calls |-> EmptyMap]
    /\ shared = [c \in Calls |-> FALSE]
    /\ starts = 0

(* Nothing of package ldaputils has been called. *)
NoInfo ==
    /\ info = <<>>
    /\ infoErr = <<>>
    /\ infoMap = <<>>
    /\ query = <<>>

(* Nothing of package midgardclient has been called. *)
NoNorm ==
    /\ data = <<>>
    /\ order = <<>>
    /\ normalized = <<>>
    /\ called = FALSE

NoToken ==
    /\ token = <<>>
    /\ now = 0
    /\ verified = <<>>
    /\ verifiedSig = <<>>

(* Neither UnsecureClaimsFromToken nor ParseCredentials has been called. *)
NoUtil ==
    /\ raw = <<>>
    /\ unsafe = <<>>
    /\ bundle = <<>>
    /\ parsed = <<>>

(* NewLDAPClaims, line 42: the standard claims are empty; ToMidgardClaims  *)
(* has not been called.                                                    *)
NoMidgard ==
    /\ subject = [o \in Objs |-> ""]
    /\ midgard = [o \in Objs |-> <<>>]

Init ==
    /\ ClaimsInit
    /\ metadata = <<>>
    /\ NoInfo
    /\ NoMidgard
    /\ NoUtil
    /\ NoNorm
    /\ NoToken

(* defer l.Close(), line 91: runs when the function leaves, by return or   *)
(* by panic, once the dial has succeeded.                                  *)
(* Variant: the connection is not closed on the way out. *)
DeferredNotRun(k, st, log) == [state |-> st, log |-> log]

Deferred(k, st, log) ==
    IF k = 0 THEN [state |-> st, log |-> log]
    ELSE [state |-> [st EXCEPT ![k] = "closed"],
          log   |-> Append(log, Op("close", k, TRUE))]

(* Variant of Return below: an error empties the receiver's map.          *)
ClearedOnError(c, e, step, log, a) ==
    LET d == Deferred(conn[c], connState, log)
        left == IF e = Nil THEN a ELSE EmptyMap
    IN
    /\ pc' = [pc EXCEPT ![c] = "done"]
    /\ err' = [err EXCEPT ![c] = e]
    /\ failedAt' = [failedAt EXCEPT ![c] = step]
    /\ connState' = d.state
    /\ ops' = [ops EXCEPT ![c] = d.log]
    /\ attrs' = [attrs EXCEPT ![Receiver(c)] = left]
    /\ result' = [result EXCEPT ![c] = left]

(* The function returns e: the deferred close runs, the caller sees the    *)
(* error and the receiver's map.  log is the call's operations so far, a   *)
(* the receiver's map after this step.                                     *)
Return(c, e, step, log, a) ==
    LET d == Deferred(conn[c], connState, log) IN
    /\ pc' = [pc EXCEPT ![c] = "done"]
    /\ err' = [err EXCEPT ![c] = e]
    /\ failedAt' = [failedAt EXCEPT ![c] = step]
    /\ connState' = d.state
    /\ ops' = [ops EXCEPT ![c] = d.log]
    /\ attrs' = [attrs EXCEPT ![Receiver(c)] = a]
    /\ result' = [result EXCEPT ![c] = a]

(* The function panics: the deferred close still runs. *)
Panic(c, log, a) ==
    LET d == Deferred(conn[c], connState, log) IN
    /\ pc' = [pc EXCEPT ![c] = "panic"]
    /\ connState' = d.state
    /\ ops' = [ops EXCEPT ![c] = d.log]
    /\ attrs' = [attrs EXCEPT ![Receiver(c)] = a]
    /\ UNCHANGED <<err, failedAt, result>>

-----------------------------------------------------------------------------
(* FromMetadata, lines 48-85: a goroutine calls c.FromMetadata(m) on the   *)
(* object o; the six keys are checked before anything else happens.        *)
FromMetadata(c, o, m) ==
    /\ ~fatal
    /\ UNCHANGED <<infoVars, normVars, tokenVars, utilVars, midgardVars>>
    /\ pc[c] \in {"idle", "done"}
    /\ starts < MaxStarts
    /\ starts' = starts + 1
    /\ md' = [md EXCEPT ![c] = m]
    /\ recv' = [recv EXCEPT ![c] = o]
    /\ conn' = [conn EXCEPT ![c] = 0]
    /\ entry' = [entry EXCEPT ![c] = 0]
    /\ idx' = [idx EXCEPT ![c] = 0]
    /\ ops' = [ops EXCEPT ![c] = <<>>]
    /\ pre' = [pre EXCEPT ![c] = attrs[o]]
    /\ LET r == CheckKeys(m, 1)
           others == {d \in Calls \ {c} : Active(d) /\ recv[d] = o}
       IN  /\ pc' = [pc EXCEPT ![c] = CASE r.outcome = "ok" -> "dial"
                                        [] r.outcome = "error" -> "done"
                                        [] OTHER -> "panic"]
           /\ err' = [err EXCEPT ![c] = r.err]
           /\ failedAt' = [failedAt EXCEPT ![c] =
                              IF r.outcome = "error" THEN "metadata" ELSE "none"]
           /\ result' = [result EXCEPT ![c] =
                              IF r.outcome = "error" THEN attrs[o] ELSE EmptyMap]
           /\ shared' = [d \in Calls |->
                              IF d = c THEN r.outcome = "ok" /\ others # {}
                              ELSE shared[d] \/ (r.outcome = "ok" /\ d \in others)]
    /\ UNCHANGED <<attrs, connState, fatal>>

(* ldap.Dial("tcp", LDAPAddress), lines 87-91. *)
Dial(c) ==
    /\ ~fatal
    /\ UNCHANGED <<infoVars, normVars, tokenVars, utilVars, midgardVars>>
    /\ pc[c] = "dial"
    /\ \/ \E e \in DialErrors :
            /\ Return(c, e, "dial",
                      Append(ops[c], [Op("dial", 0, FALSE) EXCEPT
                                         !.network = "tcp",
                                         !.addr = md[c].LDAPAddress.val]),
                      attrs[Receiver(c)])
            /\ UNCHANGED conn
       \/ LET k == Len(connState) + 1 IN
            /\ conn' = [conn EXCEPT ![c] = k]
            /\ connState' = Append(connState, "open")
            /\ ops' = [ops EXCEPT ![c] =
                          Append(@, [Op("dial", k, TRUE) EXCEPT
                                         !.network = "tcp",
                                         !.addr = md[c].LDAPAddress.val])]
            /\ pc' = [pc EXCEPT ![c] = "bind"]
            /\ UNCHANGED <<err, failedAt, attrs, result>>
    /\ UNCHANGED <<md, recv, entry, idx, fatal, pre, shared, starts>>

(* The arguments of the two binds, lines 93 and 120. *)
ServiceBindRequest(c) == [dn |-> md[c].bindDN.val, pw |-> md[c].bindPassword.val]

(* Variant: the second bind sends bindPassword instead of password. *)
UserBindWithServicePassword(c) ==
    [dn |-> Directory[entry[c]].DN, pw |-> md[c].bindPassword.val]

UserBindRequest(c) == [dn |-> Directory[entry[c]].DN, pw |-> md[c].password.val]

(* if err = l.Bind(...); err != nil { return err }, line 93. *)
(* Variant: the error of the service bind is not looked at. *)
ServiceBindErrorIgnored(r) == FALSE

ServiceBindFailed(r) == r # Nil

(* if len(sr.Entries) != 1 { return ... }, line 115. *)
(* Variant: several entries are accepted and the first one is used. *)
AtLeastOne(sr) == Len(sr) >= 1

ExactlyOne(sr) == Len(sr) = 1

(* l.Bind(bindDN, bindPassword), lines 93-95. *)
ServiceBind(c) ==
    /\ ~fatal
    /\ UNCHANGED <<infoVars, normVars, tokenVars, utilVars, midgardVars>>
    /\ pc[c] = "bind"
    /\ \E r \in {Nil} \cup BindErrors :
         LET log == Append(ops[c], [Op("bind", conn[c], r = Nil) EXCEPT
                                       !.dn = ServiceBindRequest(c).dn,
                                       !.pw = ServiceBindRequest(c).pw])
         IN  IF ~ServiceBindFailed(r)
             THEN /\ pc' = [pc EXCEPT ![c] = "search"]
                  /\ ops' = [ops EXCEPT ![c] = log]
                  /\ UNCHANGED <<err, failedAt, connState, attrs, result>>
             ELSE Return(c, r, "servicebind", log, attrs[Receiver(c)])
    /\ UNCHANGED <<md, recv, conn, entry, idx, fatal, pre, shared, starts>>

(* The search request of lines 98-108. *)
(* Variant: the entry is looked for by its common name. *)
CommonNameFilter(username) == <<"(&(cn=", username, "))">>

SearchFilter(username) == <<"(&(uid=", username, "))">>

(* l.Search(searchRequest) and the entry count, lines 110-119. *)
Search(c) ==
    /\ ~fatal
    /\ UNCHANGED <<infoVars, normVars, tokenVars, utilVars, midgardVars>>
    /\ pc[c] = "search"
    /\ LET req == [Op("search", conn[c], TRUE) EXCEPT
                      !.base = md[c].baseDN.val,
                      !.filter = SearchFilter(md[c].username.val)]
       IN  \/ \E e \in SearchErrors :
                /\ Return(c, e, "search", Append(ops[c], [req EXCEPT !.ok = FALSE]),
                          attrs[Receiver(c)])
                /\ UNCHANGED entry
           \/ \E sr \in SearchResults :
                LET log == Append(ops[c], [req EXCEPT !.n = Len(sr)]) IN
                IF ~ExactlyOne(sr)
                THEN /\ Return(c, ErrTooMany, "count", log, attrs[Receiver(c)])
                     /\ UNCHANGED entry
                ELSE /\ entry' = [entry EXCEPT ![c] = sr[1]]
                     /\ pc' = [pc EXCEPT ![c] = "userbind"]
                     /\ ops' = [ops EXCEPT ![c] = log]
                     /\ UNCHANGED <<err, failedAt, connState, attrs, result>>
    /\ UNCHANGED <<md, recv, conn, idx, fatal, pre, shared, starts>>

(* l.Bind(entry.DN, password), lines 120-122. *)
UserBind(c) ==
    /\ ~fatal
    /\ UNCHANGED <<infoVars, normVars, tokenVars, utilVars, midgardVars>>
    /\ pc[c] = "userbind"
    /\ \E r \in {Nil} \cup BindErrors :
         LET log == Append(ops[c], [Op("bind", conn[c], r = Nil) EXCEPT
                                       !.dn = UserBindRequest(c).dn,
                                       !.pw = UserBindRequest(c).pw])
         IN  IF r = Nil
             THEN /\ pc' = [pc EXCEPT ![c] = "parsedn"]
                  /\ ops' = [ops EXCEPT ![c] = log]
                  /\ UNCHANGED <<err, failedAt, connState, attrs, result>>
             ELSE Return(c, r, "userbind", log, attrs[Receiver(c)])
    /\ UNCHANGED <<md, recv, conn, entry, idx, fatal, pre, shared, starts>>

(* ldap.ParseDN(entry.DN) and the entries derived from it, lines 124-154. *)
DecomposeDN(c) ==
    /\ ~fatal
    /\ UNCHANGED <<infoVars, normVars, tokenVars, utilVars, midgardVars>>
    /\ pc[c] = "parsedn"
    /\ LET e   == Directory[entry[c]]
           dns == ParsedDN[entry[c]]
           d   == Decomposed[entry[c]]
       IN  IF dns.err # Nil THEN
                /\ Return(c, dns.err, "parsedn", ops[c], attrs[Receiver(c)])
                /\ UNCHANGED idx
           ELSE IF d.panic THEN
                /\ Panic(c, ops[c], attrs[Receiver(c)])
                /\ UNCHANGED idx
           ELSE /\ attrs' = [attrs EXCEPT ![Receiver(c)] = StoreDN(@, e.DN, d)]
                /\ idx' = [idx EXCEPT ![c] = 1]
                /\ pc' = [pc EXCEPT ![c] = "attrs"]
                /\ UNCHANGED <<err, failedAt, connState, ops, result>>
    /\ UNCHANGED <<md, recv, conn, entry, fatal, pre, shared, starts>>

(* One iteration of the loop over entry.Attributes, lines 156-166. *)
StoreAttribute(c) ==
    /\ ~fatal
    /\ UNCHANGED <<infoVars, normVars, tokenVars, utilVars, midgardVars>>
    /\ pc[c] = "attrs"
    /\ idx[c] <= Len(Directory[entry[c]].Attributes)
    /\ LET attr == Directory[entry[c]].Attributes[idx[c]] IN
         IF AttrPanics(attr)
         THEN /\ Panic(c, ops[c], attrs[Receiver(c)])
              /\ UNCHANGED idx
         ELSE /\ attrs' = [attrs EXCEPT ![Receiver(c)] = StoreAttr(@, attr)]
              /\ idx' = [idx EXCEPT ![c] = @ + 1]
              /\ UNCHANGED <<pc, err, failedAt, connState, ops, result>>
    /\ UNCHANGED <<md, recv, conn, entry, fatal, pre, shared, starts>>

(* return nil, line 168. *)
ReturnNil(c) ==
    /\ ~fatal
    /\ UNCHANGED <<infoVars, normVars, tokenVars, utilVars, midgardVars>>
    /\ pc[c] = "attrs"
    /\ idx[c] > Len(Directory[entry[c]].Attributes)
    /\ Return(c, Nil, "none", ops[c], attrs[Receiver(c)])
    /\ UNCHANGED <<md, recv, conn, entry, idx, fatal, pre, shared, starts>>

(* Two goroutines about to write the same Attributes map (lines 146-165)   *)
(* race: the runtime may detect the concurrent map writes and end the      *)
(* process, or the writes may land one after the other.                    *)
WillWrite(c) ==
    \/ pc[c] = "parsedn" /\ ParsedDN[entry[c]].err = Nil
    \/ pc[c] = "attrs" /\ idx[c] <= Len(Directory[entry[c]].Attributes)

ConcurrentMapWrites(c) ==
    /\ ~fatal
    /\ UNCHANGED <<infoVars, normVars, tokenVars, utilVars, midgardVars>>
    /\ WillWrite(c)
    /\ \E d \in Calls \ {c} : Receiver(d) = Receiver(c) /\ WillWrite(d)
    /\ fatal' = TRUE
    /\ UNCHANGED <<pc, md, recv, conn, entry, idx, err, attrs, connState,
                   ops, failedAt, pre, result, shared, starts>>

(* NewLDAPClaims, lines 39-45: the caller replaces an object no call is    *)
(* running on by a newly constructed one.                                  *)
NewLDAPClaims(o) ==
    /\ ~fatal
    /\ UNCHANGED <<infoVars, normVars, tokenVars, utilVars>>
    /\ \A c \in Calls : Active(c) => recv[c] # o
    /\ attrs[o] # NewAttributes \/ subject[o] # "" \/ midgard[o] # <<>>
    /\ attrs' = [attrs EXCEPT ![o] = NewAttributes]
    /\ subject' = [subject EXCEPT ![o] = ""]
    /\ midgard' = [midgard EXCEPT ![o] = <<>>]
    /\ UNCHANGED <<pc, md, recv, conn, entry, idx, err, connState, fatal,
                   ops, failedAt, pre, result, shared, starts>>

Next ==
    \/ \E c \in Calls, o \in Objs, m \in Metadatas : FromMetadata(c, o, m)
    \/ \E c \in Calls : Dial(c)
    \/ \E c \in Calls : ServiceBind(c)
    \/ \E c \in Calls : Search(c)
    \/ \E c \in Calls : UserBind(c)
    \/ \E c \in Calls : DecomposeDN(c)
    \/ \E c \in Calls : StoreAttribute(c)
    \/ \E c \in Calls : ReturnNil(c)
    \/ \E c \in Calls : ConcurrentMapWrites(c)
    \/ \E o \in Objs : NewLDAPClaims(o)

Spec == Init /\ [][Next]_vars

(* The steps FromMetadata takes on its own always happen; ldap.Dial gives  *)
(* up after the library's default timeout.  Bind and Search wait for the   *)
(* server's answer and the code sets no request timeout, so nothing        *)
(* obliges them to complete.                                               *)
LocalStep ==
    \E c \in Calls : Dial(c) \/ DecomposeDN(c) \/ StoreAttribute(c) \/ ReturnNil(c)

LiveSpec == Init /\ [][Next]_vars /\ WF_vars(LocalStep)

-----------------------------------------------------------------------------
(* Two callers, one after the other, each with its own object:            *)
(* FromMetadata with metadata that differ in the keys it does not read,    *)
(* with an empty password and with absent keys, and ToMidgardClaims on the *)
(* object afterwards.                                                      *)

(* The valid metadata with another bindSearchFilter, subjectKey and        *)
(* connSecurityProtocol; with an empty password; with one key absent, with *)
(* two, and with a key absent after one that is not a string.              *)
OtherMetadatas ==
    { ValidMetadata("secret"),
      [ValidMetadata("secret") EXCEPT !.bindSearchFilter = Str("cn={USERNAME}"),
                                      !.subjectKey = Str("cn"),
                                      !.connSecurityProtocol = Str("InbandTLS")],
      ValidMetadata(""),
      Without(ValidMetadata("secret"), "LDAPAddress"),
      Without(Without(ValidMetadata("secret"), "password"), "bindDN"),
      [Without(ValidMetadata("secret"), "username") EXCEPT !.bindDN = NonStr("int")] }

(* The one call a caller makes, on its own object, while no other call is  *)
(* running.                                                                *)
FromMetadataAlone(c, m) ==
    /\ pc[c] = "idle"
    /\ \A d \in Calls : ~Active(d)
    /\ FromMetadata(c, IF c = "g1" THEN "o1" ELSE "o2", m)

(* Time is counted in half seconds. *)
TicksPerSecond == 2

MaxNow == 3

(* JWTValidity, a time.Duration: a whole number of seconds. *)
JWTValidity == 2 * TicksPerSecond

(* time.Time.Unix: the seconds elapsed, the fraction dropped. *)
Unix(t) == t \div TicksPerSecond

(* Variant: the subject is left out of the claims. *)
NoSubject(o) == ""

(* c.Subject, line 182. *)
StandardSubject(o) == subject[o]

(* ToMidgardClaims at time t, lines 172-187. *)
ToMidgardClaimsOf(o, t) ==
    [Audience |-> "JWTAudience", Issuer |-> "JWTIssuer",
     ExpiresAt |-> Unix(t + JWTValidity), IssuedAt |-> Unix(t),
     Subject |-> StandardSubject(o), Realm |-> "LDAP", Data |-> attrs[o]]

(* m := c.ToMidgardClaims(), once a call on the object has succeeded. *)
ToMidgardClaims(o) ==
    /\ ~fatal
    /\ \A c \in Calls : Active(c) => recv[c] # o
    /\ \E c \in Calls : recv[c] = o /\ pc[c] = "done" /\ err[c] = Nil /\ entry[c] # 0
    /\ midgard[o] = <<>>
    /\ \E t \in 0..MaxNow : midgard' = [midgard EXCEPT ![o] = <<ToMidgardClaimsOf(o, t)>>]
    /\ UNCHANGED <<subject, ldapVars, infoVars, normVars, tokenVars, utilVars>>

(* The objects hold the subject their owner gave them. *)
AloneInit ==
    /\ ClaimsInit
    /\ metadata = <<>>
    /\ NoInfo
    /\ NoNorm
    /\ NoToken
    /\ NoUtil
    /\ subject \in {[o \in Objs |-> s] : s \in {"", "alice"}}
    /\ midgard = [o \in Objs |-> <<>>]

AloneNext ==
    \/ \E c \in Calls, m \in OtherMetadatas : FromMetadataAlone(c, m)
    \/ \E c \in Calls : Dial(c)
    \/ \E c \in Calls : ServiceBind(c)
    \/ \E c \in Calls : Search(c)
    \/ \E c \in Calls : UserBind(c)
    \/ \E c \in Calls : DecomposeDN(c)
    \/ \E c \in Calls : StoreAttribute(c)
    \/ \E c \in Calls : ReturnNil(c)
    \/ \E o \in Objs : ToMidgardClaims(o)

AloneSpec == AloneInit /\ [][AloneNext]_vars

-----------------------------------------------------------------------------
(* Package ldaputils: LDAPInfo, built from a metadata map by NewLDAPInfo   *)
(* and turned back into one by ToMap.                                      *)
(*                                                                         *)
(* A value that may be nil (a pointer, a map, an error) is the empty       *)
(* sequence when nil and a one-element sequence otherwise; an error is the *)
(* sequence of the pieces of its message.                                  *)

(* The metadata keys, as the tests and the client show them. *)
LDAPAddressKey              == "address"
LDAPBindDNKey               == "bindDN"
LDAPBindPasswordKey         == "bindPassword"
LDAPBindSearchFilterKey     == "bindSearchFilter"
LDAPSubjectKey              == "subjectKey"
LDAPIgnoredKeys             == "ignoredKeys"
LDAPConnSecurityProtocolKey == "connSecurityProtocol"
LDAPUsernameKey             == "username"
LDAPPasswordKey             == "password"
LDAPBaseDNKey               == "baseDN"

(* Variant: the user's credentials are looked up before the service's. *)
UserKeysFirst ==
    <<LDAPUsernameKey, LDAPPasswordKey, LDAPAddressKey, LDAPBindDNKey,
      LDAPBindPasswordKey, LDAPBindSearchFilterKey, LDAPSubjectKey,
      LDAPIgnoredKeys, LDAPConnSecurityProtocolKey, LDAPBaseDNKey>>

(* NewLDAPInfo, lines 160-208: the keys in the order they are looked up. *)
LDAPInfoKeys ==
    <<LDAPAddressKey, LDAPBindDNKey, LDAPBindPasswordKey, LDAPBindSearchFilterKey,
      LDAPSubjectKey, LDAPIgnoredKeys, LDAPConnSecurityProtocolKey,
      LDAPUsernameKey, LDAPPasswordKey, LDAPBaseDNKey>>

NilError == <<>>

ErrNoMetadata == <<"you must provide at least metadata or defaultMetadata">>

(* The value ToMap gives for ignoredKeys: a map used as a set of names. *)
KeyMap(s) == [kind |-> "map", keys |-> s]

(* findLDAPKey: the string under key k, or an error naming k. *)
findLDAPKey(k, m) ==
    IF k \notin DOMAIN m
    THEN [val |-> <<>>, err |-> <<"metadata must contain the key '", k, "'">>]
    ELSE IF m[k].kind # "string"
    THEN [val |-> <<>>, err |-> <<"metadata must be a string for key '", k, "'">>]
    ELSE [val |-> m[k].val, err |-> NilError]

(* findLDAPKeyMap: the list of strings under key k as a set, or an error   *)
(* naming k.                                                               *)
findLDAPKeyMap(k, m) ==
    IF k \notin DOMAIN m
    THEN [val |-> {}, err |-> <<"metadata must contain the key '", k, "'">>]
    ELSE IF m[k].kind # "list"
    THEN [val |-> {}, err |-> <<"metadata must be a list of strings for key '", k, "'">>]
    ELSE [val |-> {m[k].elems[i] : i \in DOMAIN m[k].elems}, err |-> NilError]

(* NewLDAPInfo, lines 150-211, applied to a metadata map (<<>> when nil):  *)
(* the info and the error it returns.                                      *)
NewLDAPInfoOf(mp) ==
    IF mp = <<>> THEN [info |-> <<>>, err |-> ErrNoMetadata]
    ELSE LET m == mp[1]
             find(k) == IF k = LDAPIgnoredKeys THEN findLDAPKeyMap(k, m)
                        ELSE findLDAPKey(k, m)
             failed == {i \in DOMAIN LDAPInfoKeys : find(LDAPInfoKeys[i]).err # NilError}
         IN  IF failed # {}
             THEN LET first == CHOOSE i \in failed : \A j \in failed : i <= j
                  IN  [info |-> <<>>, err |-> find(LDAPInfoKeys[first]).err]
             ELSE [info |-> << [Address              |-> find(LDAPAddressKey).val,
                                BindDN               |-> find(LDAPBindDNKey).val,
                                BindPassword         |-> find(LDAPBindPasswordKey).val,
                                BindSearchFilter     |-> find(LDAPBindSearchFilterKey).val,
                                SubjectKey           |-> find(LDAPSubjectKey).val,
                                IgnoreKeys           |-> find(LDAPIgnoredKeys).val,
                                ConnSecurityProtocol |-> find(LDAPConnSecurityProtocolKey).val,
                                Username             |-> find(LDAPUsernameKey).val,
                                Password             |-> find(LDAPPasswordKey).val,
                                BaseDN               |-> find(LDAPBaseDNKey).val] >>,
                   err |-> NilError]

(* ToMap, lines 216-227: the keys of the map it builds and the value it    *)
(* gives each.                                                             *)
ToMapKeys ==
    {LDAPAddressKey, LDAPBindDNKey, LDAPBindPasswordKey, LDAPBindSearchFilterKey,
     LDAPSubjectKey, LDAPIgnoredKeys, LDAPUsernameKey, LDAPPasswordKey,
     LDAPBaseDNKey, LDAPConnSecurityProtocolKey}

ToMapValue(i, k) ==
    CASE k = LDAPAddressKey              -> Str(i.Address)
      [] k = LDAPBindDNKey               -> Str(i.BindDN)
      [] k = LDAPBindPasswordKey         -> Str(i.BindPassword)
      [] k = LDAPBindSearchFilterKey     -> Str(i.BindSearchFilter)
      [] k = LDAPSubjectKey              -> Str(i.SubjectKey)
      [] k = LDAPIgnoredKeys             -> KeyMap(i.IgnoreKeys)
      [] k = LDAPUsernameKey             -> Str(i.Username)
      [] k = LDAPPasswordKey             -> Str(i.Password)
      [] k = LDAPBaseDNKey               -> Str(i.BaseDN)
      [] k = LDAPConnSecurityProtocolKey -> Str(i.ConnSecurityProtocol)

(* Variant: the username is written under the password's key too. *)
ToMapPasswordMixedUp(i) ==
    [k \in ToMapKeys |->
        ToMapValue(i, IF k = LDAPPasswordKey THEN LDAPUsernameKey ELSE k)]

(* ToMap, lines 213-228. *)
ToMapOf(i) == [k \in ToMapKeys |-> ToMapValue(i, k)]

(* userQueryString, line 132. *)
userQueryString == <<"{", "U", "S", "E", "R", "N", "A", "M", "E", "}">>

(* s[i..] starts with old. *)
HasPrefixAt(s, old, i) ==
    /\ i + Len(old) - 1 <= Len(s)
    /\ \A j \in 1..Len(old) : s[i + j - 1] = old[j]

(* Variant: strings.Replace with n = 1, only the first occurrence. *)
ReplaceFirst(s, old, new) ==
    LET hits == {i \in 1..Len(s) : HasPrefixAt(s, old, i)} IN
    IF hits = {} THEN s
    ELSE LET h == CHOOSE i \in hits : \A j \in hits : i <= j IN
         SubSeq(s, 1, h - 1) \o new \o SubSeq(s, h + Len(old), Len(s))

(* strings.Replace(s, old, new, -1) for a non-empty old: the occurrences   *)
(* of old found from left to right, none overlapping, replaced by new.     *)
Replace(s, old, new) ==
    LET from[i \in 1..(Len(s) + 1)] ==
            IF i > Len(s) THEN <<>>
            ELSE IF HasPrefixAt(s, old, i) THEN new \o from[i + Len(old)]
            ELSE <<s[i]>> \o from[i + 1]
    IN  from[1]

(* GetUserQueryString, lines 230-234. *)
GetUserQueryStringOf(i) == Replace(i.BindSearchFilter, userQueryString, i.Username)

(* The bind search filters and usernames tried: the filter with the        *)
(* placeholder once, twice, not at all, twice in a row, inside braces, cut *)
(* short, and the empty filter; a username, the empty one, and one that is *)
(* itself the placeholder.                                                 *)
Filters ==
    { <<"u", "=">> \o userQueryString,
      <<"u", "=">> \o userQueryString \o <<",", "k", "=">> \o userQueryString,
      <<"u", "=", "x">>,
      userQueryString \o userQueryString,
      <<"{">> \o userQueryString \o <<"}">>,
      <<"{", "U", "S", "E", "R", "}">>,
      <<>> }

Usernames == { <<"l", "s", "k", "y">>, <<>>, userQueryString }

IgnoredLists == { <<>>, <<"comment">>, <<"comment", "mail">>, <<"mail", "mail">> }

InfoKeySet == {LDAPInfoKeys[i] : i \in DOMAIN LDAPInfoKeys}

(* A metadata map with every key NewLDAPInfo reads. *)
InfoMetadata(f, u, ign) ==
    [k \in InfoKeySet |->
        CASE k = LDAPAddressKey              -> Str("123:123")
          [] k = LDAPBindDNKey               -> Str("cn=admin,dc=toto,dc=com")
          [] k = LDAPBindPasswordKey         -> Str("toto")
          [] k = LDAPBindSearchFilterKey     -> Str(f)
          [] k = LDAPSubjectKey              -> Str("uid")
          [] k = LDAPIgnoredKeys             -> StrList(ign)
          [] k = LDAPConnSecurityProtocolKey -> Str("TLS")
          [] k = LDAPUsernameKey             -> Str(u)
          [] k = LDAPPasswordKey             -> Str("secret")
          [] k = LDAPBaseDNKey               -> Str("ou=zoupla,dc=toto,dc=com")]

BaseMetadata == InfoMetadata(<<"u", "=">> \o userQueryString, <<"l", "s", "k", "y">>, <<"comment">>)

Restrict(m, ks) == [k \in ks |-> m[k]]

(* The value of the wrong type the tests give a key: a number for a string *)
(* key, a string for ignoredKeys.                                          *)
BadValue(k) == IF k = LDAPIgnoredKeys THEN Str("") ELSE NonStr("int")

(* The metadata given to NewLDAPInfo: nil, the valid maps, the base map    *)
(* with any set of keys missing, with one key of the wrong type and        *)
(* possibly another one missing, and with a key NewLDAPInfo does not read. *)
InfoMetadatas ==
    { <<>> }
    \cup { <<InfoMetadata(f, u, ign)>> : f \in Filters, u \in Usernames, ign \in IgnoredLists }
    \cup { <<Restrict(BaseMetadata, ks)>> : ks \in SUBSET InfoKeySet }
    \cup { <<Restrict([BaseMetadata EXCEPT ![k] = BadValue(k)], InfoKeySet \ j)>> :
              k \in InfoKeySet, j \in {{}} \cup {{x} : x \in InfoKeySet} }
    \cup { <<[k \in InfoKeySet \cup {"namespace"} |->
                IF k = "namespace" THEN Str("/ns") ELSE BaseMetadata[k]]>> }

(* Whether NewLDAPInfo has returned. *)
Built == info # <<>> \/ infoErr # NilError

InfoInit ==
    /\ ClaimsInit
    /\ metadata \in InfoMetadatas
    /\ NoInfo
    /\ NoMidgard
    /\ NoUtil
    /\ NoNorm
    /\ NoToken

(* i, err := NewLDAPInfo(metadata) *)
NewLDAPInfo ==
    /\ ~Built
    /\ LET r == NewLDAPInfoOf(metadata) IN
         /\ info' = r.info
         /\ infoErr' = r.err
    /\ UNCHANGED <<metadata, infoMap, query, ldapVars, normVars, tokenVars, utilVars, midgardVars>>

(* m := i.ToMap() *)
ToMap ==
    /\ info # <<>>
    /\ infoMap = <<>>
    /\ infoMap' = <<ToMapOf(info[1])>>
    /\ UNCHANGED <<metadata, info, infoErr, query, ldapVars, normVars, tokenVars, utilVars, midgardVars>>

(* i.GetUserQueryString() *)
GetUserQueryString ==
    /\ info # <<>>
    /\ query = <<>>
    /\ query' = <<GetUserQueryStringOf(info[1])>>
    /\ UNCHANGED <<metadata, info, infoErr, infoMap, ldapVars, normVars, tokenVars, utilVars, midgardVars>>

InfoNext == NewLDAPInfo \/ ToMap \/ GetUserQueryString

InfoSpec == InfoInit /\ [][InfoNext]_vars

-----------------------------------------------------------------------------
(* Package midgardclient: NormalizeAuth.  Strings are sequences of         *)
(* characters, compared byte by byte as sort.Strings compares them.        *)

(* The byte of each character used. *)
Byte(c) ==
    CASE c = "1" -> 49  [] c = ":" -> 58  [] c = "=" -> 61
      [] c = "@" -> 64  [] c = "a" -> 97  [] c = "b" -> 98  [] c = "c" -> 99
      [] c = "e" -> 101 [] c = "h" -> 104 [] c = "j" -> 106 [] c = "l" -> 108
      [] c = "m" -> 109 [] c = "r" -> 114 [] c = "s" -> 115 [] c = "t" -> 116
      [] c = "u" -> 117 [] c = "v" -> 118 [] c = "x" -> 120

(* s < t for two strings: at the first position where they differ s has    *)
(* the smaller byte, or s is a proper prefix of t.                         *)
Less(s, t) ==
    \/ \E i \in 1..Len(s) :
          /\ i <= Len(t)
          /\ \A j \in 1..(i - 1) : s[j] = t[j]
          /\ Byte(s[i]) < Byte(t[i])
    \/ /\ Len(s) < Len(t)
       /\ \A j \in 1..Len(s) : s[j] = t[j]

(* Variant: the list is returned in the order the map was enumerated. *)
AsEnumerated(l) == l

(* sort.Strings: the strings of l in ascending order. *)
SortStrings(l) ==
    LET insert(sorted, s) ==
            LET k == Cardinality({i \in DOMAIN sorted : ~Less(s, sorted[i])})
            IN  SubSeq(sorted, 1, k) \o <<s>> \o SubSeq(sorted, k + 1, Len(sorted))
        upTo[i \in 0..Len(l)] ==
            IF i = 0 THEN <<>> ELSE insert(upTo[i - 1], l[i])
    IN  upTo[Len(l)]

AuthPrefix == <<"@", "a", "u", "t", "h", ":">>

(* Variant: the "=" between key and value is left out. *)
WithoutEquals(k, v) == AuthPrefix \o k \o v

(* One claim: "@auth:" + key + "=" + value. *)
FormatClaim(k, v) == AuthPrefix \o k \o <<"=">> \o v

(* The orders in which ranging over a map with the key set ks can visit    *)
(* its keys.                                                               *)
Enumerations(ks) ==
    {p \in [1..Cardinality(ks) -> ks] : \A i, j \in DOMAIN p : p[i] = p[j] => i = j}

(* NormalizeAuth applied to an attribute map (<<>> when nil) that is       *)
(* enumerated in the order ord: one claim per pair, then sorted.           *)
NormalizeAuthOf(dp, ord) ==
    IF dp = <<>> THEN <<>>
    ELSE SortStrings([i \in 1..Len(ord) |-> FormatClaim(ord[i], dp[1][ord[i]])])

(* The keys and values of the attribute maps normalized: a key, the same   *)
(* key followed by a digit and by a letter, and another key; a value and   *)
(* the empty value.                                                        *)
AuthKeys == { <<"a">>, <<"a", "1">>, <<"a", "b">>, <<"b">> }

AuthValues == { <<"x">>, <<>> }

AuthMaps == UNION { [ks -> AuthValues] : ks \in SUBSET AuthKeys }

NormInit ==
    /\ ClaimsInit
    /\ metadata = <<>>
    /\ NoInfo
    /\ NoMidgard
    /\ NoUtil
    /\ NoToken
    /\ \E dp \in {<<>>} \cup {<<d>> : d \in AuthMaps} :
          /\ data = dp
          /\ order \in (IF dp = <<>> THEN {<<>>} ELSE Enumerations(DOMAIN dp[1]))
    /\ normalized = <<>>
    /\ called = FALSE

(* v := NormalizeAuth(claims) *)
NormalizeAuth ==
    /\ ~called
    /\ called' = TRUE
    /\ normalized' = NormalizeAuthOf(data, order)
    /\ UNCHANGED <<data, order, tokenVars, ldapVars, infoVars, utilVars, midgardVars>>

NormNext == NormalizeAuth

NormSpec == NormInit /\ [][NormNext]_vars

-----------------------------------------------------------------------------
(* Package midgardclient: VerifyToken and VerifyTokenSignature.  A token   *)
(* is what its three parts say: the algorithm its header declares, the key *)
(* its signature was made with, and its claims (sub, data, exp and nbf,    *)
(* a time of 0 standing for a claim that is absent, as in jwt-go).         *)

MaxTime == 3

(* The algorithms a header can declare and the keys a signature can be     *)
(* made with: the private key of the signer certificate, another private   *)
(* key, and the bytes of the certificate's public key used as a secret.    *)
Algorithms == {"ES256", "RS256", "HS256", "none"}

SigningKeys == {"signerKey", "wrongSignerKey", "signerCert"}

Subject == <<"s", "u", "b">>

TokenDatas == { [k \in {} |-> <<>>], [k \in {<<"a">>} |-> <<"x">>] }

Tokens ==
    [alg : Algorithms, signedWith : SigningKeys, sub : {Subject}, data : TokenDatas,
     exp : 0..MaxTime, nbf : 0..MaxTime]

(* The algorithms of the family of the signer certificate's key (an        *)
(* elliptic-curve key).                                                    *)
AllowedAlgorithms == {"ES256"}

(* Variant: any signature is taken for the signer's. *)
AnySignature(t) == TRUE

(* The signature validates under the public key of the signer certificate. *)
SignatureValid(t) == t.alg = "ES256" /\ t.signedWith = "signerKey"

(* exp: absent, or later than the time of the verification. *)
ExpValid(t, n) == t.exp = 0 \/ n < t.exp

(* nbf: absent, or not later than the time of the verification. *)
NbfValid(t, n) == t.nbf = 0 \/ t.nbf <= n

(* VerifyToken(token, cert) at time n: the claims (<<>> when nil) and the  *)
(* error.                                                                  *)
VerifyTokenOf(t, n) ==
    IF t.alg \notin AllowedAlgorithms THEN [claims |-> <<>>, err |-> "SignatureError"]
    ELSE IF ~SignatureValid(t) THEN [claims |-> <<>>, err |-> "SignatureError"]
    ELSE IF ~(ExpValid(t, n) /\ NbfValid(t, n)) THEN [claims |-> <<>>, err |-> "ExpiryError"]
    ELSE [claims |-> << [sub |-> t.sub, data |-> t.data, exp |-> t.exp, nbf |-> t.nbf] >>,
          err |-> Nil]

(* The attribute map VerifyTokenSignature normalizes: the data entries and *)
(* the subject.                                                            *)
SubjectClaim == <<"s", "u", "b", "j", "e", "c", "t">>

Flatten(c) ==
    [k \in DOMAIN c.data \cup {SubjectClaim} |-> IF k = SubjectClaim THEN c.sub ELSE c.data[k]]

(* VerifyTokenSignature(token, cert) at time n: the normalized claims      *)
(* (<<>> when nil) and the error.                                          *)
VerifyTokenSignatureOf(t, n) ==
    LET r == VerifyTokenOf(t, n) IN
    IF r.err # Nil THEN [claims |-> <<>>, err |-> r.err]
    ELSE LET a == Flatten(r.claims[1]) IN
         [claims |-> NormalizeAuthOf(<<a>>, CHOOSE p \in Enumerations(DOMAIN a) : TRUE),
          err |-> Nil]

TokenInit ==
    /\ ClaimsInit
    /\ metadata = <<>>
    /\ NoInfo
    /\ NoMidgard
    /\ NoUtil
    /\ NoNorm
    /\ token \in {<<t>> : t \in Tokens}
    /\ now \in 1..MaxTime
    /\ verified = <<>>
    /\ verifiedSig = <<>>

(* claims, err := VerifyToken(token, cert(signerCert)) *)
VerifyToken ==
    /\ token # <<>>
    /\ verified = <<>>
    /\ verified' = <<VerifyTokenOf(token[1], now)>>
    /\ UNCHANGED <<token, now, verifiedSig, normVars, ldapVars, infoVars, utilVars, midgardVars>>

(* claims, err := VerifyTokenSignature(token, cert(signerCert)) *)
VerifyTokenSignature ==
    /\ token # <<>>
    /\ verifiedSig = <<>>
    /\ verifiedSig' = <<VerifyTokenSignatureOf(token[1], now)>>
    /\ UNCHANGED <<token, now, verified, normVars, ldapVars, infoVars, utilVars, midgardVars>>

TokenNext == VerifyToken \/ VerifyTokenSignature

TokenSpec == TokenInit /\ [][TokenNext]_vars

-----------------------------------------------------------------------------
(* Package midgardclient: UnsecureClaimsFromToken.  A token string is what *)
(* lies between its dots: the number of segments and, when there are       *)
(* three, what the first decodes to (the algorithm of a JSON header, or    *)
(* nothing when it is not base64 of JSON), what the second decodes to (the *)
(* claims, or nothing) and the third, the signature: the key it was made   *)
(* with, or bytes that are no signature at all.                            *)

Garbage == "garbage"

(* The claims of a payload; the realm is absent or "V". *)
Payloads == [sub : {Subject}, realm : { <<>>, <<"V">> }, data : TokenDatas]

(* The token strings tried: three segments with every combination of       *)
(* header, payload and signature, and strings of one, two and four         *)
(* segments ("nope" has one).                                              *)
RawTokens ==
    [segments : {3}, header : Algorithms \cup {Garbage},
     payload : {<<>>} \cup {<<p>> : p \in Payloads},
     signature : SigningKeys \cup {Garbage}]
    \cup
    [segments : {1, 2, 4}, header : {Garbage}, payload : {<<>>}, signature : {Garbage}]

(* Variant: a token is parsed only when the signer's key made its          *)
(* signature.                                                              *)
ParsedWhenSigned(r) ==
    r.segments = 3 /\ r.header # Garbage /\ r.payload # <<>> /\ r.signature = "signerKey"

(* The token can be parsed without its key: three segments, a header and   *)
(* claims that decode.  The third segment is not looked at.                *)
ParsedUnverified(r) == r.segments = 3 /\ r.header # Garbage /\ r.payload # <<>>

(* strings.ToLower, for the letters used. *)
ToLower(s) == [i \in 1..Len(s) |-> IF s[i] = "V" THEN "v" ELSE s[i]]

RealmClaim == <<"r", "e", "a", "l", "m">>

(* The attribute map normalized: the data entries, the subject and, when   *)
(* the token has one, the realm in lower case.                             *)
UnsecureAttributes(p) ==
    LET ks == DOMAIN p.data \cup {SubjectClaim}
                 \cup (IF p.realm = <<>> THEN {} ELSE {RealmClaim})
    IN  [k \in ks |-> IF k = SubjectClaim THEN p.sub
                      ELSE IF k = RealmClaim THEN ToLower(p.realm)
                      ELSE p.data[k]]

(* UnsecureClaimsFromToken(token), the attribute map being enumerated in   *)
(* the order ord: the normalized claims (<<>> when nil) and the error.     *)
UnsecureClaimsFromTokenOf(r, ord) ==
    IF ~ParsedUnverified(r) THEN [claims |-> <<>>, err |-> "DecodeError"]
    ELSE [claims |-> NormalizeAuthOf(<<UnsecureAttributes(r.payload[1])>>, ord), err |-> Nil]

(* The orders in which the attribute map of a token can be enumerated. *)
UnsecureOrders(r) ==
    IF ParsedUnverified(r) THEN Enumerations(DOMAIN UnsecureAttributes(r.payload[1]))
    ELSE {<<>>}

UnsecureInit ==
    /\ ClaimsInit
    /\ metadata = <<>>
    /\ NoInfo
    /\ NoMidgard
    /\ NoNorm
    /\ NoToken
    /\ raw \in [1..2 -> RawTokens]
    /\ unsafe = [i \in 1..2 |-> <<>>]
    /\ bundle = <<>>
    /\ parsed = <<>>

(* claims, err := UnsecureClaimsFromToken(raw[i]) *)
UnsecureClaimsFromToken(i) ==
    /\ raw # <<>>
    /\ unsafe[i] = <<>>
    /\ \E ord \in UnsecureOrders(raw[i]) :
          unsafe' = [unsafe EXCEPT ![i] = <<UnsecureClaimsFromTokenOf(raw[i], ord)>>]
    /\ UNCHANGED <<raw, bundle, parsed, tokenVars, normVars, ldapVars, infoVars, midgardVars>>

UnsecureNext == \E i \in 1..2 : UnsecureClaimsFromToken(i)

UnsecureSpec == UnsecureInit /\ [][UnsecureNext]_vars

-----------------------------------------------------------------------------
(* Package midgardclient: ParseCredentials.  Data are sequences of bytes   *)
(* (0..255), texts included, so that the base64 and PEM layers of a        *)
(* credential are decoded, not assumed.                                    *)

(* encoding/base64, the standard alphabet: A-Z, a-z, 0-9, + and /, with    *)
(* "=" as padding.                                                         *)
Pad == 61

B64Char(v) ==
    IF v < 26 THEN 65 + v
    ELSE IF v < 52 THEN 97 + (v - 26)
    ELSE IF v < 62 THEN 48 + (v - 52)
    ELSE IF v = 62 THEN 43 ELSE 47

(* The value of a character of the alphabet, -1 for any other byte. *)
B64Value(b) ==
    IF b >= 65 /\ b <= 90 THEN b - 65
    ELSE IF b >= 97 /\ b <= 122 THEN b - 97 + 26
    ELSE IF b >= 48 /\ b <= 57 THEN b - 48 + 52
    ELSE IF b = 43 THEN 62
    ELSE IF b = 47 THEN 63 ELSE -1

(* base64.StdEncoding.EncodeToString: three bytes give four characters,    *)
(* the last group is padded.                                               *)
EncodeToString(src) ==
    LET n == Len(src)
        at(i) == IF i <= n THEN src[i] ELSE 0
        char(j) ==
            LET g == (j - 1) \div 4
                p == (j - 1) % 4
                b1 == at(3 * g + 1)
                b2 == at(3 * g + 2)
                b3 == at(3 * g + 3)
            IN  CASE p = 0 -> B64Char(b1 \div 4)
                  [] p = 1 -> B64Char((b1 % 4) * 16 + b2 \div 16)
                  [] p = 2 -> IF 3 * g + 2 <= n THEN B64Char((b2 % 16) * 4 + b3 \div 64) ELSE Pad
                  [] p = 3 -> IF 3 * g + 3 <= n THEN B64Char(b3 % 64) ELSE Pad
    IN  [j \in 1..(4 * ((n + 2) \div 3)) |-> char(j)]

(* base64.StdEncoding.DecodeString: new lines are passed over; what is     *)
(* left must be groups of four characters of the alphabet, the last one    *)
(* possibly ending in one or two "=".                                      *)
(* Variant: no character is taken for padding. *)
NoPadding(s) == 0

(* The number of "=" that end the text: none, one or two. *)
Padding(s) ==
    LET n == Len(s)
    IN  IF n >= 2 /\ s[n] = Pad /\ s[n - 1] = Pad THEN 2
        ELSE IF n >= 1 /\ s[n] = Pad THEN 1 ELSE 0

DecodeString(text) ==
    LET s == SelectSeq(text, LAMBDA b : b \notin {10, 13})
        n == Len(s)
        pads == Padding(s)
        bad == \/ n % 4 # 0
               \/ \E i \in 1..(n - pads) : B64Value(s[i]) = -1
        val(i) == IF s[i] = Pad THEN 0 ELSE B64Value(s[i])
        byte(j) ==
            LET g == (j - 1) \div 3
                p == (j - 1) % 3
            IN  CASE p = 0 -> val(4 * g + 1) * 4 + val(4 * g + 2) \div 16
                  [] p = 1 -> (val(4 * g + 2) % 16) * 16 + val(4 * g + 3) \div 4
                  [] p = 2 -> (val(4 * g + 3) % 4) * 64 + val(4 * g + 4)
    IN  IF bad THEN [ok |-> FALSE, bytes |-> <<>>]
        ELSE [ok |-> TRUE, bytes |-> [j \in 1..(3 * (n \div 4) - pads) |-> byte(j)]]

(* encoding/pem.  "-----BEGIN ", "-----END ", the five dashes that end a   *)
(* boundary line, and the block types "CERTIFICATE" and "EC PRIVATE KEY".  *)
Dashes == <<45, 45, 45, 45, 45>>

PemStart == Dashes \o <<66, 69, 71, 73, 78, 32>>

PemEnd == Dashes \o <<69, 78, 68, 32>>

LineFeed == <<10>>

CertificateType == <<67, 69, 82, 84, 73, 70, 73, 67, 65, 84, 69>>

ECPrivateKeyType == <<69, 67, 32, 80, 82, 73, 86, 65, 84, 69, 32, 75, 69, 89>>

(* pem.EncodeToMemory, for a block without headers whose body fits on one  *)
(* line (fewer than 49 bytes).                                             *)
PemEncode(type, der) ==
    PemStart \o type \o Dashes \o LineFeed
       \o EncodeToString(der) \o LineFeed
       \o PemEnd \o type \o Dashes \o LineFeed

(* bytes.Index from position from on: where pat first occurs, 0 if it does *)
(* not.                                                                    *)
Index(s, pat, from) ==
    LET hits == {i \in from..(Len(s) - Len(pat) + 1) : HasPrefixAt(s, pat, i)}
    IN  IF hits = {} THEN 0 ELSE CHOOSE i \in hits : \A j \in hits : i <= j

NoBlock == [block |-> <<>>, next |-> 0]

(* pem.Decode on pemBytes from position from on: the first block (its     *)
(* type and its decoded body) and the position after it, or no block.  A   *)
(* block                                                                   *)
(* starts with "-----BEGIN " at the beginning of a line, its type ends     *)
(* with five dashes at the end of that line, its body runs to the next     *)
(* line that starts with "-----END ", which must repeat the type.          *)
PemDecode(pemBytes, from) ==
    LET start == IF HasPrefixAt(pemBytes, PemStart, from) THEN from
                 ELSE LET i == Index(pemBytes, LineFeed \o PemStart, from)
                      IN  IF i = 0 THEN 0 ELSE i + 1
        t0  == start + Len(PemStart)
        eol == Index(pemBytes, LineFeed, t0)
        type == SubSeq(pemBytes, t0, eol - 6)
        e   == Index(pemBytes, LineFeed \o PemEnd, eol)
        body == DecodeString(SubSeq(pemBytes, eol + 1, e - 1))
        tail == e + 1 + Len(PemEnd)
    IN  IF start = 0 THEN NoBlock
        ELSE IF eol = 0 \/ eol - t0 < 5 \/ SubSeq(pemBytes, eol - 5, eol - 1) # Dashes THEN NoBlock
        ELSE IF e = 0 \/ ~HasPrefixAt(pemBytes, type \o Dashes, tail) \/ ~body.ok THEN NoBlock
        ELSE [block |-> << [Type |-> type, Bytes |-> body.bytes] >>,
              next |-> tail + Len(type) + Len(Dashes)]

(* crypto/x509 and crypto/tls.  The certificates and private keys that     *)
(* exist, by their DER bytes, and which key belongs to which certificate.  *)
SignerCertDER == <<48, 130, 1, 191>>

OtherCertDER == <<48, 130, 1, 172, 48>>

SignerKeyDER == <<48, 119, 2>>

OtherKeyDER == <<48, 119, 2, 1, 1, 4>>

CertDERs == {SignerCertDER, OtherCertDER}

KeyOf(cert) == IF cert = SignerCertDER THEN SignerKeyDER ELSE OtherKeyDER

(* All the blocks of a PEM text, from position from on. *)
RECURSIVE Blocks(_, _)
Blocks(pemBytes, from) ==
    LET d == PemDecode(pemBytes, from)
    IN  IF d.block = <<>> THEN <<>> ELSE d.block \o Blocks(pemBytes, d.next)

BlocksOfType(pemBytes, type) == SelectSeq(Blocks(pemBytes, 1), LAMBDA blk : blk.Type = type)

(* The client certificate built from the first certificate block and the   *)
(* first key block of the two texts, or the error: no certificate block,   *)
(* no key block, bytes that are no certificate or no key, or a key that is *)
(* not the certificate's.                                                  *)
X509KeyPair(certPEM, keyPEM) ==
    LET certs == BlocksOfType(certPEM, CertificateType)
        keys  == BlocksOfType(keyPEM, ECPrivateKeyType)
    IN  IF certs = <<>>
        THEN [cert |-> <<>>, err |-> <<"tls: failed to find any PEM data in certificate input">>]
        ELSE IF keys = <<>>
        THEN [cert |-> <<>>, err |-> <<"could not read key data from bytes">>]
        ELSE IF certs[1].Bytes \notin CertDERs
        THEN [cert |-> <<>>, err |-> <<"x509: malformed certificate">>]
        ELSE IF keys[1].Bytes \notin {SignerKeyDER, OtherKeyDER}
        THEN [cert |-> <<>>, err |-> <<"x509: failed to parse private key">>]
        ELSE IF keys[1].Bytes # KeyOf(certs[1].Bytes)
        THEN [cert |-> <<>>, err |-> <<"tls: private key does not match public key">>]
        ELSE [cert |-> << [Certificate |-> <<certs[1].Bytes>>] >>, err |-> NilError]

(* x509.CertPool.AppendCertsFromPEM: the certificates of the text. *)
AppendCertsFromPEM(caPEM) ==
    LET certs == BlocksOfType(caPEM, CertificateType)
    IN  {certs[i].Bytes : i \in DOMAIN certs} \cap CertDERs

(* The credential bundle: whether the bytes are a JSON object, and its     *)
(* three fields.                                                           *)
FieldNames == {"certificate", "certificateKey", "certificateAuthority"}

(* Variant: every decoding error speaks of the certificate. *)
AlwaysCertificate(f) == "certificate"

(* How the errors call each field. *)
ShortName(f) ==
    CASE f = "certificate" -> "certificate"
      [] f = "certificateKey" -> "key"
      [] f = "certificateAuthority" -> "ca"

(* A failure: no configuration and the pieces of the error's text. *)
Failed(e) == [config |-> <<>>, err |-> e]

(* A failure of the derivation of the configuration. *)
FailedToDerive(e) == Failed(<<"unable to derive tls config from creds">> \o e)

(* The TLS configuration derived from a bundle, or the error.  Where the   *)
(* outcome depends on what is not known of the code (the order in which    *)
(* the fields are decoded and checked, and whether a certificate authority *)
(* without any certificate is an error), each possible outcome is given.   *)
CredsToTLSConfig(b) ==
    LET dec  == [f \in FieldNames |-> DecodeString(b[f])]
        bad  == {f \in FieldNames : ~dec[f].ok}
        pair == X509KeyPair(dec["certificate"].bytes, dec["certificateKey"].bytes)
        pool == AppendCertsFromPEM(dec["certificateAuthority"].bytes)
    IN  IF bad # {}
        THEN {FailedToDerive(<<"unable to decode", ShortName(f)>>) : f \in bad}
        ELSE (IF pair.err # NilError
              THEN {FailedToDerive(<<"unable to parse certificate">> \o pair.err)}
              ELSE {[config |-> << [Certificates |-> pair.cert, RootCAs |-> pool] >>,
                     err |-> NilError]})
             \cup
             (IF pool = {}
              THEN {FailedToDerive(<<"unable to add ca to cert pool">>)}
              ELSE {})

(* ParseCredentials(data): the outcomes it can have. *)
ParseCredentialsOf(b) ==
    IF ~b.json THEN {Failed(<<"unable to decode app credential", "invalid character">>)}
    ELSE CredsToTLSConfig(b)

(* The bundles tried.  Each field is the base64 of a PEM text (one block,  *)
(* a block after a line that is none, two blocks for the authority), or    *)
(* "^^^NOTGOOD=", or the base64 of "woops", or empty.                      *)
NotBase64 == <<94, 94, 94, 78, 79, 84, 71, 79, 79, 68, 61>>

Woops == <<119, 111, 111, 112, 115>>

Bundles ==
    [json : {TRUE},
     certificate :
        { EncodeToString(PemEncode(CertificateType, SignerCertDER)),
          EncodeToString(PemEncode(CertificateType, OtherCertDER)),
          EncodeToString(Woops \o LineFeed \o PemEncode(CertificateType, SignerCertDER)),
          EncodeToString(Woops), NotBase64, <<>> },
     certificateKey :
        { EncodeToString(PemEncode(ECPrivateKeyType, SignerKeyDER)),
          EncodeToString(PemEncode(ECPrivateKeyType, OtherKeyDER)),
          EncodeToString(Woops), NotBase64 },
     certificateAuthority :
        { EncodeToString(PemEncode(CertificateType, OtherCertDER)),
          EncodeToString(PemEncode(CertificateType, OtherCertDER)
                            \o PemEncode(CertificateType, SignerCertDER)),
          EncodeToString(Woops), NotBase64 }]
    \cup
    [json : {FALSE}, certificate : {<<>>}, certificateKey : {<<>>},
     certificateAuthority : {<<>>}]

CredsInit ==
    /\ ClaimsInit
    /\ metadata = <<>>
    /\ NoInfo
    /\ NoMidgard
    /\ NoNorm
    /\ NoToken
    /\ raw = <<>>
    /\ unsafe = <<>>
    /\ bundle \in {<<b>> : b \in Bundles}
    /\ parsed = <<>>

(* _, tlsConfig, err := ParseCredentials(credsData) *)
ParseCredentials ==
    /\ bundle # <<>>
    /\ parsed = <<>>
    /\ \E r \in ParseCredentialsOf(bundle[1]) : parsed' = <<r>>
    /\ UNCHANGED <<raw, unsafe, bundle, tokenVars, normVars, ldapVars, infoVars, midgardVars>>

CredsNext == ParseCredentials

CredsSpec == CredsInit /\ [][CredsNext]_vars

-----------------------------------------------------------------------------
(* Properties. *)

Returned(c) == pc[c] = "done"

(* The directory operations of the current call, without the final close. *)
Issued(c) ==
    IF ops[c] # <<>> /\ ops[c][Len(ops[c])].op = "close"
    THEN SubSeq(ops[c], 1, Len(ops[c]) - 1)
    ELSE ops[c]

\* C1: once the dial has succeeded, the connection is closed when the call
\* leaves (by any return, and by a panic too); a close is the last operation
\* on its connection, and every connection still open belongs to a call
\* that is still running.
C1_ConnectionClosedOnReturn ==
    /\ \A c \in Calls :
          (pc[c] \in {"done", "panic"} /\ conn[c] # 0) =>
              /\ connState[conn[c]] = "closed"
              /\ ops[c][Len(ops[c])].op = "close"
              /\ ops[c][Len(ops[c])].conn = conn[c]
    /\ \A c \in Calls : \A i \in DOMAIN ops[c] :
          ops[c][i].op = "close" => i = Len(ops[c])
    /\ \A k \in DOMAIN connState :
          connState[k] = "open" => \E c \in Calls : Active(c) /\ conn[c] = k

C1_Witness ==
    \E c \in Calls : /\ Returned(c) /\ failedAt[c] = "parsedn"
                     /\ conn[c] # 0 /\ connState[conn[c]] = "closed"

\* C2: a call returns nil only after, in this order, a successful bind with
\* bindDN/bindPassword, a successful search with exactly one entry, and a
\* successful bind with that entry's DN and the supplied password.
C2_SuccessRequiresUserBind ==
    \A c \in Calls :
        (Returned(c) /\ err[c] = Nil) =>
            \E i, j, k \in DOMAIN ops[c] :
                /\ i < j /\ j < k
                /\ ops[c][i].op = "bind" /\ ops[c][i].ok
                /\ ops[c][i].dn = md[c].bindDN.val
                /\ ops[c][i].pw = md[c].bindPassword.val
                /\ ops[c][j].op = "search" /\ ops[c][j].ok /\ ops[c][j].n = 1
                /\ ops[c][k].op = "bind" /\ ops[c][k].ok
                /\ ops[c][k].dn = Directory[entry[c]].DN
                /\ ops[c][k].pw = md[c].password.val

C2_Witness == \E c \in Calls : Returned(c) /\ err[c] = Nil /\ entry[c] # 0

\* C3: the operations of a call are a prefix of dial, service bind, search,
\* user bind, each once, all on the connection the dial returned, and an
\* operation is issued only if the one before it succeeded (and, after the
\* search, only if it returned exactly one entry).
OperationOrder == <<"dial", "bind", "search", "bind">>

C3_OperationsInOrder ==
    \A c \in Calls :
        LET body == Issued(c) IN
        /\ Len(body) <= Len(OperationOrder)
        /\ \A i \in DOMAIN body :
              /\ body[i].op = OperationOrder[i]
              /\ i > 1 => /\ body[i - 1].ok
                          /\ body[i].conn = body[1].conn
                          /\ body[i].conn = conn[c]
                          /\ body[i - 1].op = "search" => body[i - 1].n = 1
              /\ i = 2 => /\ body[i].dn = md[c].bindDN.val
                          /\ body[i].pw = md[c].bindPassword.val
              /\ i = 3 => body[i].base = md[c].baseDN.val
              /\ i = 4 => /\ body[i].dn = Directory[entry[c]].DN
                          /\ body[i].pw = md[c].password.val

C3_Witness ==
    \E c, d \in Calls :
        /\ Returned(c) /\ Len(Issued(c)) = 4 /\ Len(ops[c]) = 5
        /\ Returned(d) /\ failedAt[d] = "servicebind" /\ Len(ops[d]) = 3

\* C4: after a search that returned no entry or several, the call has
\* returned the "does not exist or too many" error, has issued no bind
\* after the search, has kept no entry and has not reached the code that
\* writes Attributes; a call past the search has seen exactly one entry.
C4_AmbiguousSearchStops ==
    \A c \in Calls :
        /\ \A i \in DOMAIN ops[c] :
              (ops[c][i].op = "search" /\ ops[c][i].ok /\ ops[c][i].n # 1) =>
                  /\ Returned(c) /\ err[c] = ErrTooMany
                  /\ entry[c] = 0 /\ idx[c] = 0
                  /\ \A j \in DOMAIN ops[c] : j > i => ops[c][j].op # "bind"
        /\ entry[c] # 0 =>
              \E i \in DOMAIN ops[c] : ops[c][i].op = "search" /\ ops[c][i].n = 1

C4_Witness ==
    \E c, d \in Calls :
        /\ Returned(c) /\ failedAt[c] = "count"
        /\ \E i \in DOMAIN ops[c] : ops[c][i].op = "search" /\ ops[c][i].n = 0
        /\ Returned(d) /\ failedAt[d] = "count"
        /\ \E i \in DOMAIN ops[d] : ops[d][i].op = "search" /\ ops[d][i].n = 2


\* C5: the returned error tells the failed step: two calls that failed at
\* different steps among dial, service bind, entry count, user bind and DN
\* parsing never return the same error.
NamedSteps == {"dial", "servicebind", "count", "userbind", "parsedn"}

C5_ErrorsIdentifyStep ==
    \A c, d \in Calls :
        (/\ Returned(c) /\ failedAt[c] \in NamedSteps
         /\ Returned(d) /\ failedAt[d] \in NamedSteps
         /\ failedAt[c] # failedAt[d]) => err[c] # err[d]

\* C6: a call that has started its directory operations eventually leaves
\* them (returns), whatever the server does, unless the process has died.
C6_CallEventuallyReturns ==
    \A c \in Calls : Active(c) ~> (~Active(c) \/ fatal)

\* C7: no call ever panics.
C7_NeverPanics == \A c \in Calls : pc[c] # "panic"

(* The map a call leaves in its receiver when nothing else touches it:     *)
(* the map it found, unchanged if it returns an error, else with the       *)
(* entries of lines 146-165 stored in order.                               *)
RECURSIVE StoreFrom(_, _, _)
StoreFrom(a, attributes, i) ==
    IF i > Len(attributes) THEN a
    ELSE StoreFrom(StoreAttr(a, attributes[i]), attributes, i + 1)

AloneResult(c) ==
    IF err[c] # Nil THEN pre[c]
    ELSE LET e == Directory[entry[c]] IN
         StoreFrom(StoreDN(pre[c], e.DN, Decomposed[entry[c]]),
                   e.Attributes, 1)

OwnConnections ==
    \A c, d \in Calls : (c # d /\ conn[c] # 0 /\ conn[d] # 0) => conn[c] # conn[d]

\* C8 (as claimed): in every interleaving of two calls, each has its own
\* connection and returns the map it would return when run alone, and the
\* two never write the same data (the runtime never sees concurrent map
\* writes).
C8_NoSharedState ==
    /\ OwnConnections
    /\ ~fatal
    /\ \A c \in Calls : Returned(c) => result[c] = AloneResult(c)

\* C8 (amended): calls have their own connections; a call whose receiver no
\* other call used meanwhile returns the map it would return when run alone;
\* concurrent map writes happen only between two calls on one receiver.
C8_DistinctReceiversIndependent ==
    /\ OwnConnections
    /\ \A c \in Calls : (Returned(c) /\ ~shared[c]) => result[c] = AloneResult(c)
    /\ fatal => \E c, d \in Calls : c # d /\ Active(c) /\ Active(d) /\ recv[c] = recv[d]

C8_Witness ==
    \E c, d \in Calls :
        /\ c # d /\ recv[c] # recv[d]
        /\ Returned(c) /\ err[c] = Nil /\ ~shared[c] /\ entry[c] # 0
        /\ pc[d] = "attrs" /\ idx[d] > 1 /\ conn[c] < conn[d]

(* What the entry found by a call can contribute to the map: the values of *)
(* the relative names of its DN by type, and its attributes' first values. *)
RECURSIVE ValuesOfType(_, _, _)
ValuesOfType(rdns, type, i) ==
    IF i > Len(rdns) THEN <<>>
    ELSE (IF rdns[i][1].Type = type THEN <<rdns[i][1].Value>> ELSE <<>>)
         \o ValuesOfType(rdns, type, i + 1)

RECURSIVE JoinDots(_)
JoinDots(vals) ==
    IF vals = <<>> THEN <<>>
    ELSE IF Len(vals) = 1 THEN vals[1]
    ELSE vals[1] \o <<".">> \o JoinDots(Tail(vals))

DerivedPairs(e) ==
    LET rdns == ParseDN(e.DN).RDNs
        ous  == ValuesOfType(rdns, OU, 1)
        dcs  == ValuesOfType(rdns, DC, 1)
    IN  {<<"dn", ReplaceSpaces(e.DN)>>}
        \cup {<<"organizationalUnit", ous[i]>> : i \in DOMAIN ous}
        \cup {<<"organization", JoinDots(dcs)>>}
        \cup {<<e.Attributes[i].Name, ReplaceSpaces(e.Attributes[i].Values[1])>> :
                 i \in {j \in DOMAIN e.Attributes : Len(e.Attributes[j].Values) > 0}}

OnlyOwnEntries(c) ==
    \A k \in DOMAIN result[c] : <<k, result[c][k]>> \in DerivedPairs(Directory[entry[c]])

\* C9 (as claimed): after any sequence of calls, one after the other on a
\* receiver, the map of a successful call holds only entries derived from
\* the directory entry of that call.
C9_NothingPersists ==
    \A c \in Calls : (Returned(c) /\ err[c] = Nil /\ ~shared[c]) => OnlyOwnEntries(c)

\* C9 (amended): the same, for a call made on an LDAPClaims that is as
\* NewLDAPClaims constructs it and that no other call uses meanwhile.
C9_FreshReceiverHoldsOnlyOwnEntries ==
    \A c \in Calls :
        (Returned(c) /\ err[c] = Nil /\ pre[c] = NewAttributes /\ ~shared[c])
            => OnlyOwnEntries(c)

C9_Witness ==
    \E c, d \in Calls :
        /\ c # d /\ Returned(d) /\ err[d] = Nil /\ result[d] # EmptyMap
        /\ Returned(c) /\ err[c] = Nil /\ pre[c] = NewAttributes /\ ~shared[c]
        /\ entry[c] # entry[d] /\ "mail" \in DOMAIN result[c]

\* C10: after a successful call, organizationalUnit is the value of the
\* first ou relative name of the entry's DN (absent without one),
\* organization the values of its dc relative names joined by "." (absent
\* without one), and dn the DN with every space replaced by an underscore.
C10_DNDerivedAttributes ==
    \A c \in Calls :
        (Returned(c) /\ err[c] = Nil) =>
            LET e    == Directory[entry[c]]
                rdns == ParseDN(e.DN).RDNs
                ous  == ValuesOfType(rdns, OU, 1)
                dcs  == ValuesOfType(rdns, DC, 1)
                a    == result[c]
            IN  /\ IF ous = <<>> THEN "organizationalUnit" \notin DOMAIN a
                   ELSE /\ "organizationalUnit" \in DOMAIN a
                        /\ a["organizationalUnit"] = ous[1]
                /\ IF dcs = <<>> THEN "organization" \notin DOMAIN a
                   ELSE /\ "organization" \in DOMAIN a
                        /\ a["organization"] = JoinDots(dcs)
                /\ "dn" \in DOMAIN a /\ a["dn"] = ReplaceSpaces(e.DN)

(* The attribute names the loop of lines 156-166 passes over. *)
NeverStored == {"userPassword", "objectClass"}

(* The attribute the loop of a call is at, and whether the loop stores it. *)
CurrentAttr(c) == Directory[entry[c]].Attributes[idx[c]]

Storable(attr) ==
    /\ attr.Name \notin NeverStored
    /\ Len(attr.Values) > 0
    /\ attr.Values[1] # <<>>

LoopStep(c) ==
    /\ pc[c] = "attrs"
    /\ idx[c] <= Len(Directory[entry[c]].Attributes)
    /\ idx'[c] = idx[c] + 1

\* C11: each iteration of the attribute loop stores, for an attribute not
\* named userPassword or objectClass whose first value is non-empty, the
\* first value with every space replaced by an underscore under the
\* attribute's name, and changes nothing for the other attributes; no map
\* ever holds userPassword or objectClass; and in the map of a successful
\* call (on a receiver no other call wrote meanwhile) every such attribute
\* of the found entry holds exactly that first value.
C11_AttributesStored ==
    /\ [](\A o \in Objs : DOMAIN attrs[o] \cap NeverStored = {})
    /\ [](\A c \in Calls :
            (Returned(c) /\ err[c] = Nil /\ ~shared[c]) =>
                \A i \in DOMAIN Directory[entry[c]].Attributes :
                    LET attr == Directory[entry[c]].Attributes[i] IN
                    Storable(attr) =>
                        /\ attr.Name \in DOMAIN result[c]
                        /\ result[c][attr.Name] =
                              [j \in 1..Len(attr.Values[1]) |->
                                  IF attr.Values[1][j] = " " THEN "_"
                                  ELSE attr.Values[1][j]])
    /\ [][\A c \in Calls :
            LoopStep(c) =>
                LET o == recv[c]
                    attr == CurrentAttr(c)
                IN  IF Storable(attr)
                    THEN /\ DOMAIN attrs'[o] = DOMAIN attrs[o] \cup {attr.Name}
                         /\ Len(attrs'[o][attr.Name]) = Len(attr.Values[1])
                         /\ \A j \in 1..Len(attr.Values[1]) :
                               attrs'[o][attr.Name][j] =
                                   IF attr.Values[1][j] = " " THEN "_"
                                   ELSE attr.Values[1][j]
                         /\ \A k \in DOMAIN attrs[o] \ {attr.Name} :
                               attrs'[o][k] = attrs[o][k]
                    ELSE attrs'[o] = attrs[o]]_vars

\* A successful call that found the first entry: mail is stored, cn is
\* stored from its first value "A B", userPassword and the empty sn are not.
C11_Witness ==
    \E c \in Calls :
        /\ Returned(c) /\ err[c] = Nil /\ ~shared[c] /\ entry[c] = 1
        /\ pre[c] = NewAttributes
        /\ result[c]["cn"] = <<"A", "_", "B">>
        /\ "sn" \notin DOMAIN result[c]

\* C12: an attribute of the found entry whose name is listed in the
\* metadata's ignoredKeys never appears in the map of a successful call.
C12_IgnoredKeysExcluded ==
    \A c \in Calls :
        (Returned(c) /\ err[c] = Nil /\ "ignoredKeys" \in DOMAIN md[c]) =>
            \A i \in DOMAIN md[c].ignoredKeys.elems :
                md[c].ignoredKeys.elems[i] \notin DOMAIN result[c]

(* The order of the ten keys as the claim gives it, and what makes a key   *)
(* of a metadata map fail.                                                 *)
ClaimedOrder ==
    <<"address", "bindDN", "bindPassword", "bindSearchFilter", "subjectKey",
      "ignoredKeys", "connSecurityProtocol", "username", "password", "baseDN">>

Absent(m, k) == k \notin DOMAIN m

Mistyped(m, k) ==
    /\ k \in DOMAIN m
    /\ m[k].kind # (IF k = "ignoredKeys" THEN "list" ELSE "string")

FailingKeys(m) ==
    {i \in DOMAIN ClaimedOrder : Absent(m, ClaimedOrder[i]) \/ Mistyped(m, ClaimedOrder[i])}

\* C13: NewLDAPInfo given nil metadata returns an error and a nil info;
\* given a map it fails at the first key, in the order address, bindDN,
\* bindPassword, bindSearchFilter, subjectKey, ignoredKeys,
\* connSecurityProtocol, username, password, baseDN, that is absent or of
\* the wrong type, with a nil info and the error that names that key
\* ("must contain the key" when absent, "must be a string" for a non-string,
\* "must be a list of strings" for ignoredKeys), whatever later keys lack.
C13_FirstFailingKeyNamed ==
    Built =>
        IF metadata = <<>> THEN info = <<>> /\ infoErr # NilError
        ELSE LET m   == metadata[1]
                 bad == FailingKeys(m)
             IN  IF bad = {} THEN info # <<>> /\ infoErr = NilError
                 ELSE LET first == CHOOSE i \in bad : \A j \in bad : i <= j
                          k     == ClaimedOrder[first]
                      IN  /\ info = <<>>
                          /\ infoErr =
                               << IF Absent(m, k) THEN "metadata must contain the key '"
                                  ELSE IF k = "ignoredKeys"
                                       THEN "metadata must be a list of strings for key '"
                                  ELSE "metadata must be a string for key '",
                                  k, "'" >>

\* NewLDAPInfo has failed on a map that has an address and lacks bindDN
\* and username: the error names bindDN, the first of the two.
C13_Witness ==
    /\ Built /\ metadata # <<>> /\ info = <<>>
    /\ Cardinality(FailingKeys(metadata[1])) >= 2
    /\ "address" \in DOMAIN metadata[1]
    /\ Absent(metadata[1], "bindDN")
    /\ Absent(metadata[1], "username")
    /\ infoErr[2] = "bindDN"

(* The nine keys whose values are strings, with the field of LDAPInfo the  *)
(* claim pairs each with.                                                  *)
StringFields ==
    [address |-> "Address", bindDN |-> "BindDN", bindPassword |-> "BindPassword",
     bindSearchFilter |-> "BindSearchFilter", subjectKey |-> "SubjectKey",
     connSecurityProtocol |-> "ConnSecurityProtocol", username |-> "Username",
     password |-> "Password", baseDN |-> "BaseDN"]

\* C14: for a valid metadata map m, the info NewLDAPInfo returns holds each
\* of the nine string values of m in its field and the names listed under
\* ignoredKeys as a set, and ToMap of that info is a map with exactly the ten
\* metadata keys, the nine string values equal to those of m and the value
\* of ignoredKeys that set.
C14_MetadataRoundTrip ==
    /\ info # <<>> =>
          /\ \A k \in DOMAIN StringFields :
                info[1][StringFields[k]] = metadata[1][k].val
          /\ info[1].IgnoreKeys =
                {metadata[1].ignoredKeys.elems[i] : i \in DOMAIN metadata[1].ignoredKeys.elems}
    /\ infoMap # <<>> =>
          /\ DOMAIN infoMap[1] = DOMAIN StringFields \cup {"ignoredKeys"}
          /\ \A k \in DOMAIN StringFields :
                /\ infoMap[1][k].kind = "string"
                /\ infoMap[1][k].val = metadata[1][k].val
          /\ infoMap[1].ignoredKeys.kind = "map"
          /\ infoMap[1].ignoredKeys.keys =
                {metadata[1].ignoredKeys.elems[i] : i \in DOMAIN metadata[1].ignoredKeys.elems}

\* ToMap has run on the info of a map that lists two ignored keys and whose
\* username is the empty string.
C14_Witness ==
    /\ infoMap # <<>>
    /\ Len(metadata[1].ignoredKeys.elems) = 2
    /\ Cardinality(infoMap[1].ignoredKeys.keys) = 2
    /\ metadata[1].username.val = <<>>

(* The placeholder of the claim, the places of a filter where it occurs    *)
(* (it cannot overlap itself), and the filter with the username written in *)
(* at each of them: position by position, the username where an            *)
(* occurrence starts, nothing inside an occurrence, the character itself   *)
(* elsewhere.                                                              *)
Placeholder == <<"{", "U", "S", "E", "R", "N", "A", "M", "E", "}">>

Occurrences(f) ==
    {i \in 1..Len(f) :
        /\ i + Len(Placeholder) - 1 <= Len(f)
        /\ SubSeq(f, i, i + Len(Placeholder) - 1) = Placeholder}

RECURSIVE Substituted(_, _, _)
Substituted(f, u, i) ==
    IF i > Len(f) THEN <<>>
    ELSE (IF i \in Occurrences(f) THEN u
          ELSE IF \E h \in Occurrences(f) : h < i /\ i < h + Len(Placeholder) THEN <<>>
          ELSE <<f[i]>>)
         \o Substituted(f, u, i + 1)

\* C15: GetUserQueryString returns bindSearchFilter with every occurrence
\* of {USERNAME} replaced by the username and every other character
\* unchanged (the filter itself when there is no occurrence), and the call
\* leaves the LDAPInfo as it was.
C15_EveryPlaceholderReplaced ==
    /\ [](query # <<>> =>
            /\ query[1] = Substituted(info[1].BindSearchFilter, info[1].Username, 1)
            /\ Occurrences(info[1].BindSearchFilter) = {} =>
                  query[1] = info[1].BindSearchFilter)
    /\ [][query' # query => info' = info]_vars

\* GetUserQueryString has run on a filter with two occurrences of the
\* placeholder and a non-empty username.
C15_Witness ==
    /\ query # <<>>
    /\ Cardinality(Occurrences(info[1].BindSearchFilter)) = 2
    /\ info[1].Username = <<"l", "s", "k", "y">>
    /\ Len(query[1]) = Len(info[1].BindSearchFilter) - 2 * Len(Placeholder) + 8

(* The ten key names of the claim. *)
ClaimedKeys ==
    {"LDAPAddress", "bindDN", "bindPassword", "bindSearchFilter", "subjectKey",
     "ignoredKeys", "connSecurityProtocol", "username", "password", "baseDN"}

\* C16: the keys read by NewLDAPInfo and written by ToMap are LDAPAddress,
\* bindDN, bindPassword, bindSearchFilter, subjectKey, ignoredKeys,
\* connSecurityProtocol, username, password and baseDN, and
\* LDAPClaims.FromMetadata finds its keys in a map that ToMap produced.
C16_SameKeyNames ==
    infoMap # <<>> =>
        /\ ClaimedKeys \subseteq DOMAIN metadata[1]
        /\ DOMAIN infoMap[1] = ClaimedKeys
        /\ CheckKeys(infoMap[1], 1).outcome = "ok"

(* The string the claim gives for a pair, and where the list returned has  *)
(* it.                                                                     *)
AuthString(k, v) == <<"@", "a", "u", "t", "h", ":">> \o k \o <<"=">> \o v

PositionOf(k) == CHOOSE i \in DOMAIN normalized : normalized[i] = AuthString(k, data[1][k])

\* C17: NormalizeAuth returns the empty list for nil and for an empty map;
\* for a map it returns one string "@auth:key=value" per pair and no other,
\* in ascending lexicographic order, and the list is the same whatever the
\* order in which the map is enumerated.
C17_NormalizeDeterministic ==
    called =>
        IF data = <<>> THEN normalized = <<>>
        ELSE LET d == data[1] IN
             /\ Len(normalized) = Cardinality(DOMAIN d)
             /\ \A k \in DOMAIN d :
                   \E i \in DOMAIN normalized : normalized[i] = AuthString(k, d[k])
             /\ \A i, j \in DOMAIN normalized :
                   i < j => ~Less(normalized[j], normalized[i])
             /\ \A p \in Enumerations(DOMAIN d) : NormalizeAuthOf(data, p) = normalized
             /\ DOMAIN d = {} => normalized = <<>>

\* NormalizeAuth has run on a map of three pairs enumerated from the last
\* key to the first.
C17_Witness ==
    /\ called /\ data # <<>>
    /\ DOMAIN data[1] = {<<"a">>, <<"a", "b">>, <<"b">>}
    /\ order = << <<"b">>, <<"a", "b">>, <<"a">> >>
    /\ normalized[3] = AuthString(<<"b">>, data[1][<<"b">>])

\* C18 (as claimed): the list NormalizeAuth returns is in the order of the
\* keys: of two pairs, the one with the smaller key comes first.
C18_SortedByKey ==
    (called /\ data # <<>>) =>
        \A k1, k2 \in DOMAIN data[1] :
            Less(k1, k2) => PositionOf(k1) < PositionOf(k2)

(* k2 is k1 followed by a character that does not sort after "=". *)
ExtendsBelowEquals(k1, k2) ==
    /\ Len(k1) < Len(k2)
    /\ SubSeq(k2, 1, Len(k1)) = k1
    /\ Byte(k2[Len(k1) + 1]) <= Byte("=")

\* C18 (amended): the list is in the order of the keys when no key is
\* another key followed by a character that sorts at or below "=".
C18_SortedByKeyUnlessExtended ==
    (/\ called
     /\ data # <<>>
     /\ \A k1, k2 \in DOMAIN data[1] : ~ExtendsBelowEquals(k1, k2)) =>
        \A k1, k2 \in DOMAIN data[1] :
            Less(k1, k2) => PositionOf(k1) < PositionOf(k2)

\* NormalizeAuth has run on a map whose keys are a, ab and b, enumerated
\* from the last to the first: the list is in the order a, ab, b.
C18_Witness ==
    /\ called /\ data # <<>>
    /\ DOMAIN data[1] = {<<"a">>, <<"a", "b">>, <<"b">>}
    /\ order[1] = <<"b">>
    /\ PositionOf(<<"a">>) = 1
    /\ PositionOf(<<"a", "b">>) = 2

(* A token that declares the elliptic-curve algorithm and is signed with   *)
(* the private key of the signer certificate; what VerifyToken and         *)
(* VerifyTokenSignature returned, once they have.                          *)
SignedBySigner(t) == t.alg = "ES256" /\ t.signedWith = "signerKey"

(* r, returned for the token t, is an error with nil claims unless t is    *)
(* the signer's, and is claims for the signer's token of the tests.        *)
OnlyForSigner(t, r) ==
    /\ r.claims # <<>> => SignedBySigner(t) /\ r.err = Nil
    /\ ~SignedBySigner(t) => r.claims = <<>> /\ r.err # Nil
    /\ (SignedBySigner(t) /\ t.exp = 0 /\ t.nbf = 0) => r.claims # <<>> /\ r.err = Nil

(* r, returned at time n for the token t, is a success only within the     *)
(* token's validity and an ExpiryError with nil claims outside it.         *)
WithinValidity(t, n, r) ==
    LET ok == t.exp > n /\ (t.nbf = 0 \/ t.nbf <= n) IN
    /\ r.err = Nil => ok
    /\ ~ok => r.err = "ExpiryError" /\ r.claims = <<>>

\* C19: VerifyToken and VerifyTokenSignature return claims only for a token
\* that declares an allowed asymmetric algorithm and is signed with the
\* private key of the signer certificate; such a token (with no exp and no
\* nbf, as in the tests) succeeds, VerifyToken returning its subject and
\* VerifyTokenSignature the sorted "@auth:" list with the subject; a token
\* signed with another key, or declaring none or another family, yields an
\* error and nil claims whatever its other claims.
C19_ClaimsOnlyForSignerTokens ==
    token # <<>> =>
        LET t == token[1] IN
        /\ \A i \in DOMAIN verified : OnlyForSigner(t, verified[i])
        /\ \A i \in DOMAIN verifiedSig : OnlyForSigner(t, verifiedSig[i])
        /\ (verified # <<>> /\ verified[1].err = Nil) =>
              verified[1].claims[1].sub = t.sub
        /\ (verifiedSig # <<>> /\ verifiedSig[1].err = Nil) =>
              LET l == verifiedSig[1].claims IN
              /\ \E i \in DOMAIN l :
                    l[i] = <<"@", "a", "u", "t", "h", ":", "s", "u", "b", "j", "e", "c", "t", "=">> \o t.sub
              /\ \A i, j \in DOMAIN l : i < j => ~Less(l[j], l[i])

\* Both functions have refused a token that declares ES256 and is signed
\* with the wrong key, and whose exp and nbf are in order.
C19_Witness ==
    /\ verified # <<>> /\ verifiedSig # <<>>
    /\ token[1].alg = "ES256" /\ token[1].signedWith = "wrongSignerKey"
    /\ token[1].exp > now /\ token[1].nbf # 0 /\ token[1].nbf <= now
    /\ verified[1].err # Nil /\ verified[1].claims = <<>>
    /\ verifiedSig[1].err # Nil /\ verifiedSig[1].claims = <<>>

\* C20: for a correctly signed token, verification succeeds only if exp is
\* later than the time of the verification and nbf, when present, is not
\* later than it; otherwise it returns an ExpiryError and no claims.
C20_ExpiryChecked ==
    (token # <<>> /\ SignedBySigner(token[1])) =>
        /\ \A i \in DOMAIN verified : WithinValidity(token[1], now, verified[i])
        /\ \A i \in DOMAIN verifiedSig : WithinValidity(token[1], now, verifiedSig[i])

(* The two token strings have the same header and payload; a token string  *)
(* that is structurally malformed; the claims a well-formed token carries, *)
(* as strings; a list of strings in ascending order.                       *)
SameHeaderAndPayload(r1, r2) ==
    r1.segments = r2.segments /\ r1.header = r2.header /\ r1.payload = r2.payload

Malformed(r) == r.segments # 3 \/ r.header = Garbage \/ r.payload = <<>>

CarriedClaims(p) ==
    { AuthString(k, p.data[k]) : k \in DOMAIN p.data }
      \cup { AuthString(<<"s", "u", "b", "j", "e", "c", "t">>, p.sub) }
      \cup (IF p.realm = <<"V">> THEN { AuthString(<<"r", "e", "a", "l", "m">>, <<"v">>) } ELSE {})

Ascending(l) == \A i, j \in DOMAIN l : i < j => ~Less(l[j], l[i])

(* C21: UnsecureClaimsFromToken does not look at the signature.  Two       *)
(* tokens with the same header and payload get the same result whatever    *)
(* their signature parts are; a well-formed token gets its claims,         *)
(* normalized and sorted, and no error; an error comes with nil claims and *)
(* only for a structurally malformed token.                                *)
C21_SignatureIgnored ==
    raw # <<>> =>
      /\ \A i, j \in 1..2 :
            (unsafe[i] # <<>> /\ unsafe[j] # <<>> /\ SameHeaderAndPayload(raw[i], raw[j]))
               => unsafe[i] = unsafe[j]
      /\ \A i \in 1..2 :
            unsafe[i] # <<>> =>
               LET r == unsafe[i][1] IN
               /\ r.err # Nil => r.claims = <<>> /\ Malformed(raw[i])
               /\ ~Malformed(raw[i]) =>
                     /\ r.err = Nil
                     /\ {r.claims[n] : n \in DOMAIN r.claims} = CarriedClaims(raw[i].payload[1])
                     /\ Len(r.claims) = Cardinality(CarriedClaims(raw[i].payload[1]))
                     /\ Ascending(r.claims)

(* Both calls have returned claims for one header and payload, one token   *)
(* signed by the signer and the other not, a realm among the claims.       *)
C21_Witness ==
    /\ raw # <<>>
    /\ unsafe[1] # <<>> /\ unsafe[2] # <<>>
    /\ SameHeaderAndPayload(raw[1], raw[2])
    /\ raw[1].header = "ES256"
    /\ raw[1].signature = "signerKey"
    /\ raw[2].signature = "wrongSignerKey"
    /\ unsafe[1][1].err = Nil
    /\ Len(unsafe[2][1].claims) = 3

(* A field that is not base64 (it has a "^"); the name the errors give     *)
(* each field; the bundles whose certificate and key make a pair, with the *)
(* certificate each carries.                                               *)
Undecodable(field) == \E i \in DOMAIN field : field[i] = 94

NamedAs ==
    [certificate |-> "certificate", certificateKey |-> "key", certificateAuthority |-> "ca"]

CarriesPair(b, der) ==
    /\ b.certificate \in
          { EncodeToString(PemEncode(CertificateType, der)),
            EncodeToString(Woops \o LineFeed \o PemEncode(CertificateType, der)) }
    /\ b.certificateKey = EncodeToString(PemEncode(ECPrivateKeyType, KeyOf(der)))

(* C22: ParseCredentials never returns a TLS configuration together with   *)
(* an error.  Malformed JSON yields the decode error; a bundle with a      *)
(* field that is not base64 yields an error that names such a field (the   *)
(* field, when there is only one); a certificate and key that make no pair *)
(* yield an error; in all these cases the configuration is nil.            *)
C22_NoConfigWithError ==
    parsed # <<>> =>
       LET b == bundle[1]
           r == parsed[1]
           undecodable == {f \in FieldNames : Undecodable(b[f])}
       IN  /\ r.err # NilError => r.config = <<>>
           /\ ~b.json => r.config = <<>> /\ r.err[1] = "unable to decode app credential"
           /\ (b.json /\ undecodable # {}) =>
                 /\ r.config = <<>>
                 /\ \E f \in undecodable :
                       r.err = <<"unable to derive tls config from creds",
                                 "unable to decode", NamedAs[f]>>
           /\ (b.json /\ ~\E d \in CertDERs : CarriesPair(b, d)) =>
                 r.config = <<>> /\ r.err # NilError

(* ParseCredentials has returned for a bundle whose key alone is not       *)
(* base64: the error names the key.                                        *)
C22_Witness ==
    /\ parsed # <<>>
    /\ bundle[1].json
    /\ {f \in FieldNames : Undecodable(bundle[1][f])} = {"certificateKey"}
    /\ parsed[1].err = <<"unable to derive tls config from creds", "unable to decode", "key">>
    /\ parsed[1].config = <<>>

(* A valid bundle: a certificate with its key, and an authority that is    *)
(* one or more certificates.                                               *)
ValidBundle(b, der) ==
    /\ b.json
    /\ CarriesPair(b, der)
    /\ b.certificateAuthority \in
          { EncodeToString(PemEncode(CertificateType, OtherCertDER)),
            EncodeToString(PemEncode(CertificateType, OtherCertDER)
                              \o PemEncode(CertificateType, SignerCertDER)) }

(* C23: for a valid bundle ParseCredentials returns a configuration whose  *)
(* first client certificate is exactly the DER bytes that the certificate  *)
(* field carries: the bytes that were encoded into it, which are the bytes *)
(* that base64-decoding and PEM-decoding the field give.                   *)
C23_CertificateRoundTrip ==
    parsed # <<>> =>
       \A der \in CertDERs :
          ValidBundle(bundle[1], der) =>
             LET r == parsed[1]
                 text == DecodeString(bundle[1].certificate)
             IN  /\ r.err = NilError
                 /\ r.config # <<>>
                 /\ r.config[1].Certificates[1].Certificate = <<der>>
                 /\ text.ok
                 /\ PemDecode(text.bytes, 1).block # <<>>
                 /\ r.config[1].Certificates[1].Certificate
                       = <<PemDecode(text.bytes, 1).block[1].Bytes>>

(* ParseCredentials has returned a configuration for a valid bundle whose  *)
(* certificate is the five-byte one (its base64 ends with one "=").        *)
C23_Witness ==
    /\ parsed # <<>>
    /\ ValidBundle(bundle[1], OtherCertDER)
    /\ parsed[1].config # <<>>
    /\ parsed[1].config[1].Certificates[1].Certificate = <<OtherCertDER>>

(* The metadata keys of the claim; two metadata maps that differ in these  *)
(* keys only; what the directory answered to a call, operation by          *)
(* operation; what a call asked of it, whatever the connection.            *)
NotRead == {"bindSearchFilter", "subjectKey", "connSecurityProtocol"}

DifferOnlyInNotRead(m1, m2) ==
    /\ m1 # m2
    /\ DOMAIN m1 = DOMAIN m2
    /\ \A k \in DOMAIN m1 \ NotRead : m1[k] = m2[k]

Answers(c) == [i \in DOMAIN ops[c] |-> <<ops[c][i].op, ops[c][i].ok, ops[c][i].n>>]

Requests(c) == [i \in DOMAIN ops[c] |-> [ops[c][i] EXCEPT !.conn = 0]]

(* C24: bindSearchFilter, subjectKey and connSecurityProtocol have no      *)
(* influence.  Every connection is dialed as plain "tcp" to LDAPAddress    *)
(* and nothing but dial, bind, search and close is sent on it; the search  *)
(* filter is "(&(uid=<username>))"; two calls whose metadata differ only   *)
(* in the three keys, started on equal maps and given the same answers by  *)
(* the directory, send the same operations and return the same error and   *)
(* the same map.                                                           *)
C24_UnreadKeysHaveNoInfluence ==
    /\ \A c \in Calls : \A i \in DOMAIN ops[c] :
          /\ ops[c][i].op \in {"dial", "bind", "search", "close"}
          /\ ops[c][i].op = "dial" =>
                ops[c][i].network = "tcp" /\ ops[c][i].addr = md[c].LDAPAddress.val
          /\ ops[c][i].op = "search" =>
                ops[c][i].filter = <<"(&(uid=", md[c].username.val, "))">>
    /\ \A c, d \in Calls :
          ( /\ Returned(c) /\ Returned(d)
            /\ DifferOnlyInNotRead(md[c], md[d])
            /\ Answers(c) = Answers(d)
            /\ entry[c] = entry[d]
            /\ pre[c] = pre[d] )
          => /\ Requests(c) = Requests(d)
             /\ err[c] = err[d]
             /\ result[c] = result[d]

(* Two calls have succeeded on the same entry with metadata that differ    *)
(* only in the three keys.                                                 *)
C24_Witness ==
    /\ Returned("g1") /\ Returned("g2")
    /\ DifferOnlyInNotRead(md["g1"], md["g2"])
    /\ md["g1"].bindSearchFilter = Str("cn={USERNAME}")
    /\ md["g1"].connSecurityProtocol = Str("InbandTLS")
    /\ err["g1"] = Nil /\ err["g2"] = Nil
    /\ entry["g1"] = 1 /\ entry["g2"] = 1
    /\ Answers("g1") = Answers("g2")

(* The call was given the empty string as password. *)
EmptyPassword(c) ==
    /\ "password" \in DOMAIN md[c]
    /\ md[c].password = Str("")

(* C25: the user bind is never issued with an empty password: a call whose *)
(* password is the empty string sends no bind with the entry's DN and the  *)
(* empty password, and returns an error.                                   *)
C25_NoBindWithEmptyPassword ==
    \A c \in Calls :
       EmptyPassword(c) =>
          /\ \A i \in DOMAIN ops[c] :
                ~(ops[c][i].op = "bind" /\ entry[c] # 0
                    /\ ops[c][i].dn = Directory[entry[c]].DN /\ ops[c][i].pw = "")
          /\ Returned(c) => err[c] # Nil

(* C26: a call that returns an error leaves Attributes as it was.  The     *)
(* step in which a call returns an error changes no map; such a call has   *)
(* not reached the writes of lines 146-165 (its attribute loop never       *)
(* started); and, no other call having used the receiver meanwhile, the    *)
(* map the caller finds is the map the call found.                         *)
C26_ErrorLeavesAttributes ==
    [][ \A c \in Calls :
           (pc'[c] = "done" /\ err'[c] # Nil /\ (pc[c] # "done" \/ starts' # starts)) =>
              /\ idx'[c] = 0
              /\ failedAt'[c] \in {"metadata", "dial", "servicebind", "search", "count",
                                   "userbind", "parsedn"}
              /\ attrs' = attrs
              /\ ~shared'[c] => result'[c] = pre'[c] ]_vars

(* A call has returned the error of the user bind on an object that an     *)
(* earlier call had filled.                                                *)
C26_Witness ==
    \E c \in Calls :
       /\ Returned(c) /\ err[c] # Nil /\ failedAt[c] = "userbind"
       /\ ~shared[c]
       /\ pre[c] # EmptyMap
       /\ attrs[recv[c]] = pre[c]

(* C27: after a successful call on a receiver no other call used           *)
(* meanwhile, each of dn, organization and organizationalUnit that the     *)
(* entry's DN yields holds the DN-derived value, whatever attributes the   *)
(* entry has.                                                              *)
C27_DNValuesSurviveTheLoop ==
    \A c \in Calls :
        (Returned(c) /\ err[c] = Nil /\ ~shared[c]) =>
            LET dn      == Directory[entry[c]].DN
                derived == StoreDN(EmptyMap, dn, Decompose(ParseDN(dn).RDNs))
            IN
            \A k \in DOMAIN derived : k \in DOMAIN result[c] /\ result[c][k] = derived[k]

(* C28: no value of the map a successful call leaves contains a space.     *)
C28_NoSpaceInAnyValue ==
    \A c \in Calls :
        (Returned(c) /\ err[c] = Nil /\ ~shared[c]) =>
            \A k \in DOMAIN result[c] :
               \A i \in DOMAIN result[c][k] : result[c][k][i] # " "

(* The first of the six keys that the metadata lacks, 0 when it has all.   *)
FirstAbsent(m) ==
    LET absent == {i \in DOMAIN RequiredKeys : RequiredKeys[i] \notin DOMAIN m}
    IN  IF absent = {} THEN 0 ELSE CHOOSE i \in absent : \A j \in absent : i <= j

(* C29: a call whose metadata lacks one of the six keys has returned the   *)
(* error naming the first absent key, and has dialed no connection.        *)
C29_AbsentKeyReportedBeforeNetwork ==
    \A c \in Calls :
        (pc[c] # "idle" /\ FirstAbsent(md[c]) # 0) =>
            /\ Returned(c)
            /\ err[c] = MissingKeyError[RequiredKeys[FirstAbsent(md[c])]]
            /\ ops[c] = <<>> /\ conn[c] = 0

(* C30: no step changes Subject, and the claims ToMidgardClaims builds     *)
(* after a successful FromMetadata have the realm "LDAP", the Attributes   *)
(* map as Data, ExpiresAt = IssuedAt + the validity in seconds, and the    *)
(* Subject the object held from the start.                                 *)
C30_OnlyAttributesChange ==
    [][ /\ subject' = subject
        /\ \A o \in Objs :
              (midgard[o] = <<>> /\ midgard'[o] # <<>>) =>
                 LET mc == midgard'[o][1] IN
                 /\ mc.Realm = "LDAP"
                 /\ mc.Data = attrs[o]
                 /\ mc.ExpiresAt = mc.IssuedAt + (JWTValidity \div TicksPerSecond)
                 /\ mc.Subject = subject[o] ]_vars

(* Claims were built, at a time that is not a whole second, for an object  *)
(* with a Subject whose map the authentication filled.                     *)
C30_Witness ==
    \E o \in Objs :
       /\ midgard[o] # <<>>
       /\ subject[o] = "alice"
       /\ midgard[o][1].Subject = "alice"
       /\ "dn" \in DOMAIN midgard[o][1].Data
       /\ midgard[o][1].ExpiresAt = 3

====
